---- MODULE Spec2Model ----
(***************************************************************************)
(* Model of the extraction-and-admission pipeline of scraper/scraper.py.   *)
(*                                                                         *)
(* Text (ids, labels, aliases, quotes, edge ids) is modelled as sequences   *)
(* of one-character strings so that lower(), slugify(), title(), the       *)
(* substring test of has_comparison_phrase and the formatting and parsing  *)
(* of edge ids are computed the way the code computes them.  URLs, emoji,   *)
(* tags and dates are opaque to the code and are plain strings.            *)
(***************************************************************************)
EXTENDS Integers, Sequences, FiniteSets, TLC

(***************************************************************************)
(* Characters and Python string methods                                    *)
(***************************************************************************)
LowerAlpha == <<"a","b","c","d","e","f","g","h","i","j","k","l","m",
                "n","o","p","q","r","s","t","u","v","w","x","y","z">>
UpperAlpha == <<"A","B","C","D","E","F","G","H","I","J","K","L","M",
                "N","O","P","Q","R","S","T","U","V","W","X","Y","Z">>
DigitChars == <<"0","1","2","3","4","5","6","7","8","9">>

Range(f) == {f[i] : i \in DOMAIN f}

IsLowerChar(c) == c \in Range(LowerAlpha)
IsUpperChar(c) == c \in Range(UpperAlpha)
IsDigitChar(c) == c \in Range(DigitChars)
IsSpaceChar(c) == c = " "
\* \w of the re module: letters, digits and the underscore
IsWordChar(c) == IsLowerChar(c) \/ IsUpperChar(c) \/ IsDigitChar(c) \/ c = "_"

IndexOf(seq, c) == CHOOSE i \in DOMAIN seq : seq[i] = c

LowerChar(c) == IF IsUpperChar(c) THEN LowerAlpha[IndexOf(UpperAlpha, c)] ELSE c
UpperChar(c) == IF IsLowerChar(c) THEN UpperAlpha[IndexOf(LowerAlpha, c)] ELSE c

\* str.lower()
Lower(s) == [i \in 1..Len(s) |-> LowerChar(s[i])]

\* str.title(): a cased character is upper-cased when it follows an uncased
\* one (or starts the string) and lower-cased otherwise
IsCased(c) == IsLowerChar(c) \/ IsUpperChar(c)
Title(s) == [i \in 1..Len(s) |->
               IF i = 1 \/ ~IsCased(s[i-1]) THEN UpperChar(s[i]) ELSE LowerChar(s[i])]

\* str.replace("_", " ")
ReplaceUnderscores(s) == [i \in 1..Len(s) |-> IF s[i] = "_" THEN " " ELSE s[i]]

\* str.strip() for the whitespace of the model
RECURSIVE LStrip(_)
LStrip(s) == IF s # <<>> /\ IsSpaceChar(Head(s)) THEN LStrip(Tail(s)) ELSE s
RECURSIVE RStrip(_)
RStrip(s) == IF s # <<>> /\ IsSpaceChar(s[Len(s)])
             THEN RStrip(SubSeq(s, 1, Len(s) - 1)) ELSE s
Strip(s) == RStrip(LStrip(s))

\* re.sub(r"[^\w\s]", "", s)
DropPunctuation(s) == SelectSeq(s, LAMBDA c : IsWordChar(c) \/ IsSpaceChar(c))

\* re.sub(r"\s+", "_", s) : every maximal run of whitespace becomes one "_"
RECURSIVE SpacesToUnderscore(_)
SpacesToUnderscore(s) ==
    IF s = <<>> THEN <<>>
    ELSE IF IsSpaceChar(Head(s))
         THEN <<"_">> \o SpacesToUnderscore(LStrip(s))
         ELSE <<Head(s)>> \o SpacesToUnderscore(Tail(s))

\* re.sub(r"_+", "_", s)
RECURSIVE CollapseUnderscores(_)
CollapseUnderscores(s) ==
    IF Len(s) < 2 THEN s
    ELSE IF s[1] = "_" /\ s[2] = "_"
         THEN CollapseUnderscores(Tail(s))
         ELSE <<Head(s)>> \o CollapseUnderscores(Tail(s))

slugify(label) ==
    CollapseUnderscores(SpacesToUnderscore(Strip(DropPunctuation(Lower(label)))))

\* kw in q
Contains(q, kw) ==
    \E i \in 0..(Len(q) - Len(kw)) : SubSeq(q, i + 1, i + Len(kw)) = kw

(***************************************************************************)
(* Edge ids: f"e{n:03d}" and re.match(r"e(\d+)$", id)                       *)
(***************************************************************************)
RECURSIVE DecimalDigits(_)
DecimalDigits(n) ==
    IF n < 10 THEN <<DigitChars[n + 1]>>
    ELSE DecimalDigits(n \div 10) \o <<DigitChars[(n % 10) + 1]>>

RECURSIVE ZeroPad(_, _)
ZeroPad(s, width) == IF Len(s) >= width THEN s ELSE ZeroPad(<<"0">> \o s, width)

FormatEdgeId(n) == <<"e">> \o ZeroPad(DecimalDigits(n), 3)

RECURSIVE DigitsValue(_)
DigitsValue(s) ==
    IF s = <<>> THEN 0
    ELSE 10 * DigitsValue(SubSeq(s, 1, Len(s) - 1))
         + (IndexOf(DigitChars, s[Len(s)]) - 1)

\* the number captured by the pattern, or -1 when the id does not match
EdgeIdNum(id) ==
    IF Len(id) >= 2 /\ id[1] = "e" /\ \A i \in 2..Len(id) : IsDigitChar(id[i])
    THEN DigitsValue(Tail(id))
    ELSE -1

(***************************************************************************)
(* Constants of the program                                                *)
(***************************************************************************)
MAX_EDGES_PER_ARTICLE == 3

COMPARISON_KEYWORDS == {
    <<"t","i","m","e","s"," ","t","h","e"," ","s","i","z","e">>,
    <<"t","i","m","e","s"," ","t","h","e"," ","a","r","e","a">>,
    <<"t","i","m","e","s"," ","t","h","e"," ","w","e","i","g","h","t">>,
    <<"t","i","m","e","s"," ","t","h","e"," ","h","e","i","g","h","t">>,
    <<"t","i","m","e","s"," ","t","h","e"," ","l","e","n","g","t","h">>,
    <<"t","i","m","e","s"," ","t","h","e"," ","v","o","l","u","m","e">>,
    <<"t","i","m","e","s"," ","l","a","r","g","e","r"," ","t","h","a","n">>,
    <<"t","i","m","e","s"," ","b","i","g","g","e","r"," ","t","h","a","n">>,
    <<"t","i","m","e","s"," ","s","m","a","l","l","e","r"," ","t","h","a","n">>,
    <<"t","h","e"," ","s","i","z","e"," ","o","f">>,
    <<"t","h","e"," ","a","r","e","a"," ","o","f">>,
    <<"t","h","e"," ","w","e","i","g","h","t"," ","o","f">>,
    <<"t","h","e"," ","h","e","i","g","h","t"," ","o","f">>,
    <<"a","s"," ","b","i","g"," ","a","s">>,
    <<"a","s"," ","h","e","a","v","y"," ","a","s">>,
    <<"a","s"," ","t","a","l","l"," ","a","s">>,
    <<"a","s"," ","w","i","d","e"," ","a","s">>,
    <<"a","s"," ","l","o","n","g"," ","a","s">>,
    <<"w","e","i","g","h","s"," ","a","s"," ","m","u","c","h"," ","a","s">>,
    <<"e","q","u","i","v","a","l","e","n","t"," ","t","o">>
}

\* variant: any non-empty quote passes
has_any_quote(quote) == quote # <<>>

\* has_comparison_phrase(quote)
has_comparison_phrase(quote) ==
    LET q == Lower(quote) IN \E kw \in COMPARISON_KEYWORDS : Contains(q, kw)

(***************************************************************************)
(* JSON values                                                             *)
(*                                                                         *)
(* A string-valued key that is missing from an object is Absent.  A number *)
(* is [t, n, d] with value n/d in lowest terms and t its JSON/Python type; *)
(* Python compares and hashes int, float and bool by value, which is what  *)
(* NumKey keeps.  A unit reference is a string [t |-> "str"], an object    *)
(* [t |-> "dict"] or any other JSON value [t |-> "other"].                 *)
(***************************************************************************)
Absent == <<"<absent>">>
NoneId == <<"<None>">>

\* truthiness of a string-or-missing value: None and "" are falsy
Truthy(s) == s # Absent /\ s # <<>>

\* variant: isinstance(factor, float)
IsNumberFloatOnly(f) == f.t = "float"

\* isinstance(factor, (int, float)); bool is a subclass of int
IsNumber(f) == f.t \in {"int", "float", "bool"}
NumKey(f) == <<f.n, f.d>>
\* float(x)
Float(f) == [t |-> "float", n |-> f.n, d |-> f.d]

StrRef(s) == [t |-> "str", s |-> s]
DictRef(id, label, aliases, emoji, tags) ==
    [t |-> "dict", id |-> id, label |-> label, aliases |-> aliases,
     emoji |-> emoji, tags |-> tags]
OtherRef == [t |-> "other"]
MissingKey == [t |-> "missing"]

Unit(id, label, aliases, emoji, tags) ==
    [id |-> id, label |-> label, aliases |-> aliases, emoji |-> emoji, tags |-> tags]

(***************************************************************************)
(* validate_comparison                                                     *)
(***************************************************************************)
validate_comparison(comp) ==
    /\ comp.t = "dict"
    /\ comp.from # MissingKey /\ comp.to # MissingKey
    /\ IsNumber(comp.factor) /\ comp.factor.n > 0
    /\ Truthy(comp.source_quote)
    /\ has_comparison_phrase(comp.source_quote)

\* a source_quote that is a truthy JSON value other than a string (a number,
\* a non-empty array or object, true); a falsy one goes the way of Absent
NonStringQuote == <<"<not a string>">>

\* variant: a quote that is not a string is rejected like an absent one
validate_comparison_raises_never(comp) == FALSE

\* validate_comparison raises: the checks before the phrase test pass and
\* quote.lower() in has_comparison_phrase meets a value without that method
validate_comparison_raises(comp) ==
    /\ comp.t = "dict"
    /\ comp.from # MissingKey /\ comp.to # MissingKey
    /\ IsNumber(comp.factor) /\ comp.factor.n > 0
    /\ comp.source_quote = NonStringQuote

(***************************************************************************)
(* Run-scoped resolution state                                             *)
(*                                                                         *)
(* new_units_map is a dict keyed by unit id whose values carry that id; it *)
(* is kept as the sequence of its values in insertion order.  Assigning to *)
(* a key that is present replaces the value in place.                      *)
(***************************************************************************)
MapKeys(m) == {m[i].id : i \in DOMAIN m}
MapSet(m, k, v) ==
    IF k \in MapKeys(m)
    THEN [i \in DOMAIN m |-> IF m[i].id = k THEN v ELSE m[i]]
    ELSE Append(m, v)

\* the terms of one unit, in the order main() indexes them
UnitTerms(u) == <<Lower(u.id), Lower(u.label)>> \o [i \in DOMAIN u.aliases |-> Lower(u.aliases[i])]

\* terms_to_id as built by main(): a later unit overwrites an earlier one
RECURSIVE BuildTermsToId(_)
BuildTermsToId(us) ==
    IF us = <<>> THEN <<>>
    ELSE LET u == us[Len(us)]
             rest == BuildTermsToId(SubSeq(us, 1, Len(us) - 1))
         IN [t \in Range(UnitTerms(u)) |-> u.id] @@ rest

TermLookup(terms_to_id, term) ==
    IF term \in DOMAIN terms_to_id THEN terms_to_id[term] ELSE Absent

(***************************************************************************)
(* resolve_unit                                                            *)
(*                                                                         *)
(* check_terms is a Python set of strings, whose iteration order is not    *)
(* fixed by the language (string hashing is randomised per process): when  *)
(* several terms of a proposal match, any of the matched units may be      *)
(* returned.  resolve_unit is therefore the set of its possible results,   *)
(* each the returned id with the minted-units map the call leaves behind.  *)
(***************************************************************************)
Resolved(id, m) == [id |-> id, map |-> m]

\* variant: the candidate id is used without looking at the catalogue ids
FinalIdNoSuffix(final_id, suggested_id, counter, existing_ids) == final_id

\* while final_id in existing_ids: final_id = f"{suggested_id}_{counter}"
RECURSIVE FinalId(_, _, _, _)
FinalId(final_id, suggested_id, counter, existing_ids) ==
    IF final_id \in existing_ids
    THEN FinalId(suggested_id \o <<"_">> \o DecimalDigits(counter),
                 suggested_id, counter + 1, existing_ids)
    ELSE final_id

\* variant: only the label of a proposal is looked up, its aliases are not
CheckTermsLabelOnly(unit_ref) ==
    IF Truthy(unit_ref.label) THEN {Lower(unit_ref.label)} ELSE {}

CheckTerms(unit_ref) ==
    (IF Truthy(unit_ref.label) THEN {Lower(unit_ref.label)} ELSE {})
    \cup {Lower(unit_ref.aliases[i]) : i \in DOMAIN unit_ref.aliases}

\* variant: an id queued earlier in the run is not reused but de-duplicated
\* with a suffix like a catalogue id
ResolveDictNoReuse(unit_ref, existing_ids, new_units_map, terms_to_id) ==
    LET matched == {c \in {TermLookup(terms_to_id, term) : term \in CheckTerms(unit_ref)} :
                       Truthy(c)}
        suggested_id ==
            slugify(IF Truthy(unit_ref.id) THEN unit_ref.id
                    ELSE slugify(IF unit_ref.label = Absent THEN
                                     <<"u","n","k","n","o","w","n">>
                                 ELSE unit_ref.label))
        final_id == FinalId(suggested_id, suggested_id, 2,
                            existing_ids \cup MapKeys(new_units_map))
        new_unit ==
            Unit(final_id,
                 IF unit_ref.label = Absent
                 THEN Title(ReplaceUnderscores(final_id)) ELSE unit_ref.label,
                 unit_ref.aliases, unit_ref.emoji, unit_ref.tags)
    IN IF matched # {}
       THEN {Resolved(c, new_units_map) : c \in matched}
       ELSE {Resolved(final_id, MapSet(new_units_map, final_id, new_unit))}

\* the second branch of resolve_unit: unit_ref is a dict
ResolveDict(unit_ref, existing_ids, new_units_map, terms_to_id) ==
    LET matched == {c \in {TermLookup(terms_to_id, term) : term \in CheckTerms(unit_ref)} :
                       Truthy(c)}
        suggested_id ==
            slugify(IF Truthy(unit_ref.id) THEN unit_ref.id
                    ELSE slugify(IF unit_ref.label = Absent THEN
                                     <<"u","n","k","n","o","w","n">>
                                 ELSE unit_ref.label))
        final_id == FinalId(suggested_id, suggested_id, 2, existing_ids)
        new_unit ==
            Unit(final_id,
                 IF unit_ref.label = Absent
                 THEN Title(ReplaceUnderscores(final_id)) ELSE unit_ref.label,
                 unit_ref.aliases, unit_ref.emoji, unit_ref.tags)
    IN IF matched # {}
       THEN {Resolved(c, new_units_map) : c \in matched}
       ELSE IF suggested_id \in MapKeys(new_units_map)
       THEN {Resolved(suggested_id, new_units_map)}
       ELSE {Resolved(final_id, MapSet(new_units_map, final_id, new_unit))}

resolve_unit(unit_ref, existing_ids, new_units_map, terms_to_id) ==
    IF unit_ref.t = "str"
    THEN IF unit_ref.s \in existing_ids \/ unit_ref.s \in MapKeys(new_units_map)
         THEN {Resolved(unit_ref.s, new_units_map)}
         ELSE IF Truthy(TermLookup(terms_to_id, Lower(unit_ref.s)))
         THEN {Resolved(TermLookup(terms_to_id, Lower(unit_ref.s)), new_units_map)}
         ELSE LET human == ReplaceUnderscores(unit_ref.s)
              IN ResolveDict(DictRef(unit_ref.s, Title(human), <<human>>, "", ""),
                             existing_ids, new_units_map, terms_to_id)
    ELSE IF unit_ref.t = "dict"
    THEN ResolveDict(unit_ref, existing_ids, new_units_map, terms_to_id)
    ELSE {Resolved(NoneId, new_units_map)}

\* a truthy JSON value that is not a string, in a field of a unit reference
NonStringField == NonStringQuote

\* resolve_unit raises: label.lower() or alias.lower() of a dict fails for a
\* value that is not a string, and so does slugify of such an id once no term
\* of the reference matched the catalogue
resolve_unit_raises(unit_ref, terms_to_id) ==
    /\ unit_ref.t = "dict"
    /\ \/ unit_ref.label = NonStringField
       \/ \E i \in DOMAIN unit_ref.aliases : unit_ref.aliases[i] = NonStringField
       \/ /\ unit_ref.id = NonStringField
          /\ \A term \in CheckTerms(unit_ref) : ~Truthy(TermLookup(terms_to_id, term))

(***************************************************************************)
(* Text used by the inputs of the model                                    *)
(***************************************************************************)
s_wales == <<"w","a","l","e","s">>
s_a_football_pitch == <<"a","_","f","o","o","t","b","a","l","l","_","p","i","t","c","h">>
s_double_decker_bus == <<"d","o","u","b","l","e","_","d","e","c","k","e","r","_","b","u","s">>
s_football_field == <<"f","o","o","t","b","a","l","l","_","f","i","e","l","d">>
s_blue_whale == <<"b","l","u","e","_","w","h","a","l","e">>
s_football_pitch == <<"f","o","o","t","b","a","l","l","_","p","i","t","c","h">>
s_london_bus == <<"l","o","n","d","o","n","_","b","u","s">>
s_x == <<"x">>
s_Wales == <<"W","a","l","e","s">>
s_Football_Pitch == <<"F","o","o","t","b","a","l","l"," ","P","i","t","c","h">>
s_Football_Field == <<"F","o","o","t","b","a","l","l"," ","F","i","e","l","d">>
s_Double_Decker_Bus == <<"D","o","u","b","l","e"," ","D","e","c","k","e","r"," ","B","u","s">>
s_Blue_Whale == <<"B","l","u","e"," ","W","h","a","l","e">>
s_Wales_Stadium == <<"W","a","l","e","s"," ","S","t","a","d","i","u","m">>
s_New_South_Wales == <<"N","e","w"," ","S","o","u","t","h"," ","W","a","l","e","s">>
s_London_Bus == <<"L","o","n","d","o","n"," ","B","u","s">>
s_WALES == <<"W","A","L","E","S">>
s_Eiffel_Tower == <<"E","i","f","f","e","l"," ","T","o","w","e","r","!">>
s_Soccer_Field == <<"S","o","c","c","e","r"," ","F","i","e","l","d">>
s_football_pitches == <<"f","o","o","t","b","a","l","l"," ","p","i","t","c","h","e","s">>
s_double_decker_buses == <<"d","o","u","b","l","e","-","d","e","c","k","e","r"," ","b","u","s","e","s">>
s_blue_whales == <<"b","l","u","e"," ","w","h","a","l","e","s">>
s_Double_Decker_Buses == <<"D","o","u","b","l","e","-","D","e","c","k","e","r"," ","B","u","s","e","s">>
q_reef == <<"T","h","e"," ","r","e","e","f"," ","i","s"," ","t","h","e"," ","s","i","z","e"," ","o","f"," ","7","0"," ","m","i","l","l","i","o","n"," ","f","o","o","t","b","a","l","l"," ","p","i","t","c","h","e","s",".">>
q_rocket == <<"T","h","e"," ","r","o","c","k","e","t"," ","r","o","s","e"," ","8","0"," ","f","e","e","t"," ","i","n","t","o"," ","t","h","e"," ","a","i","r",".">>
q_upper == <<"I","t"," ","i","s"," ","A","S"," ","B","I","G"," ","A","S"," ","W","a","l","e","s",".">>
q_whale == <<"I","t"," ","w","e","i","g","h","s"," ","a","s"," ","m","u","c","h"," ","a","s"," ","3","0"," ","b","u","s","e","s",".">>
id_e001 == <<"e","0","0","1">>
id_e002 == <<"e","0","0","2">>
id_e7 == <<"e","7">>
id_legacy == <<"x","1","2">>

(***************************************************************************)
(* State                                                                   *)
(***************************************************************************)
VARIABLES
    units_file,             \* data/units.json
    edges_file,             \* data/edges.json
    args,                   \* parsed command line of the run
    env,                    \* which provider credentials are configured
    units,                  \* main(): units
    edges,                  \* main(): edges
    existing_unit_ids,      \* main(): existing_unit_ids
    existing_source_urls,   \* main(): existing_source_urls
    terms_to_id,            \* main(): terms_to_id
    max_edge_num_ref,       \* main(): max_edge_num_ref[0]
    new_units_map,          \* main(): new_units_map
    new_edges,              \* main(): new_edges
    dedup_edge_keys,        \* main(): dedup_edge_keys
    groq_quota_exhausted,   \* _groq_quota_exhausted
    gemini_quota_exhausted, \* _gemini_quota_exhausted
    pc,                     \* where main() stands
    return_pc,              \* where process_article returns to
    feeds_left,             \* feeds of feed_urls not yet iterated
    entries_left,           \* entries of the current feed not yet iterated
    article_url,            \* process_article(): article_url
    comps_left,             \* candidates of comparisons not yet iterated
    edges_this_article,     \* process_article(): edges_this_article
    run,                    \* number of the run (process) in progress
    processed,              \* URLs process_article was called with in this run
    first_resolved,         \* first result of resolve_unit per reference, this run
    calls,                  \* number of resolve_unit calls made so far
    budget,                 \* candidates the extractor may still return
    now,                    \* time.monotonic(), in tenths of a second
    last_groq_call,         \* _last_groq_call
    last_gemini_call,       \* _last_gemini_call
    sent,                   \* times at which a request went to each provider
    llm_calls,              \* number of timed call_llm calls made so far
    last                    \* what the last step did

vars == <<units_file, edges_file, args, env, units, edges, existing_unit_ids,
          existing_source_urls, terms_to_id, max_edge_num_ref, new_units_map,
          new_edges, dedup_edge_keys, groq_quota_exhausted, gemini_quota_exhausted,
          pc, return_pc, feeds_left, entries_left, article_url, comps_left,
          edges_this_article, run, processed, first_resolved, calls, budget,
          now, last_groq_call, last_gemini_call, sent, llm_calls, last>>

\* the clock and the per-provider call times
timing == <<now, last_groq_call, last_gemini_call, sent, llm_calls>>

NoneSent == [groq |-> <<>>, gemini |-> <<>>]

\* module load: _last_groq_call = 0.0, _last_gemini_call = 0.0
InitTiming ==
    /\ now = 0
    /\ last_groq_call = 0
    /\ last_gemini_call = 0
    /\ sent = NoneSent
    /\ llm_calls = 0

(***************************************************************************)
(* Bounds                                                                  *)
(***************************************************************************)
MaxResolveCalls == 3

(***************************************************************************)
(* The persisted catalogue the runs start from.  Ids are unique snake_case *)
(* identifiers.  In CatalogueShared two units carry the same alias.        *)
(***************************************************************************)
u_wales == Unit(s_wales, s_Wales, <<>>, "flag", "")
u_pitch == Unit(s_a_football_pitch, s_Football_Pitch, <<s_football_pitches>>, "", "sport")
u_bus   == Unit(s_double_decker_bus, s_Double_Decker_Bus, <<s_double_decker_buses>>, "", "")
u_field == Unit(s_football_field, s_Football_Field, <<s_football_pitches>>, "", "")

Catalogue == <<u_wales, u_pitch, u_bus>>
CatalogueShared == <<u_wales, u_pitch, u_bus, u_field>>
Catalogues == {Catalogue, CatalogueShared}

UnitIds(us) == {us[i].id : i \in DOMAIN us}

(***************************************************************************)
(* Unit references an extractor may return                                 *)
(***************************************************************************)
r_wales          == StrRef(s_wales)
r_pitch          == StrRef(s_a_football_pitch)
r_bus            == StrRef(s_double_decker_bus)
r_pitch_label    == StrRef(s_Football_Pitch)
r_wales_label    == StrRef(s_Wales)
r_whale_str      == StrRef(s_blue_whale)
r_whale_label    == StrRef(s_Blue_Whale)
r_whale          == DictRef(s_blue_whale, s_Blue_Whale, <<s_blue_whales>>, "whale", "animal")
r_stadium        == DictRef(s_wales, s_Wales_Stadium, <<>>, "", "")
r_nsw            == DictRef(s_wales, s_New_South_Wales, <<>>, "", "")
r_bus_proposal   == DictRef(Absent, s_Double_Decker_Bus, <<s_double_decker_buses>>, "", "")
r_london_bus     == DictRef(s_london_bus, s_London_Bus, <<s_Double_Decker_Buses>>, "", "")
r_two_matches    == DictRef(s_x, s_WALES, <<s_football_pitches>>, "", "")
r_tower          == DictRef(Absent, s_Eiffel_Tower, <<>>, "", "")
r_pitch_slug     == StrRef(s_football_pitch)
r_soccer         == DictRef(s_football_pitch, s_Soccer_Field, <<>>, "", "")
r_number         == OtherRef
r_whale_alias    == StrRef(s_blue_whales)
r_whale_renamed  == DictRef(s_x, s_Blue_Whale, <<>>, "", "")

r_label_number   == DictRef(s_x, NonStringField, <<>>, "", "")
r_id_number      == DictRef(NonStringField, s_Blue_Whale, <<>>, "", "")
r_id_number_bus  == DictRef(NonStringField, s_Double_Decker_Bus, <<>>, "", "")

RefPool == {r_wales, r_pitch_label, r_whale_str, r_whale_label, r_whale, r_stadium,
            r_nsw, r_bus_proposal, r_london_bus, r_two_matches, r_tower,
            r_pitch_slug, r_soccer, r_number,
            r_whale_alias, r_whale_renamed}

(***************************************************************************)
(* main(), step 1: load the two collections and derive the run state       *)
(***************************************************************************)
EdgeKey(e) == <<e.from, e.to, NumKey(e.factor), e.source_url>>

SetMax(S) == CHOOSE x \in S : \A y \in S : y <= x

\* variant: the edges are counted instead of their ids being read
MaxEdgeNumByCount(es) == Len(es)

\* max_edge_num_ref[0] after the loop over the loaded edges
MaxEdgeNum(es) == SetMax({0} \cup {EdgeIdNum(es[i].id) : i \in DOMAIN es})

\* variant: no URL of a loaded edge counts as seen
SourceUrlsNone(es) == {}

\* existing_source_urls as loaded
SourceUrls(es) == {es[i].source_url : i \in DOMAIN es}
\* variant: the dedup set is not seeded from the loaded edges
DedupKeysUnseeded(es) == {}

DedupKeys(es) == {EdgeKey(es[i]) : i \in DOMAIN es}

NoStep == [op |-> "none"]

\* article and feed URLs; "u1" is both a line of feeds.txt and an entry link
Urls == {"u1", "u2"}
FeedUrls == {"f1", "u1"}
NotProcessed == [u \in Urls \cup FeedUrls |-> 0]

(***************************************************************************)
(* resolve_unit called on its own, any references in any order             *)
(***************************************************************************)
InitResolve ==
    /\ units_file \in Catalogues
    /\ edges_file = <<>>
    /\ args = [url |-> "", filter_both_new |-> FALSE]
    /\ env = [groq_key |-> TRUE, gemini_key |-> TRUE]
    /\ units = units_file
    /\ edges = edges_file
    /\ existing_unit_ids = UnitIds(units_file)
    /\ existing_source_urls = SourceUrls(edges_file)
    /\ terms_to_id = BuildTermsToId(units_file)
    /\ max_edge_num_ref = MaxEdgeNum(edges_file)
    /\ new_units_map = <<>>
    /\ new_edges = <<>>
    /\ dedup_edge_keys = DedupKeys(edges_file)
    /\ groq_quota_exhausted = FALSE
    /\ gemini_quota_exhausted = FALSE
    /\ pc = "resolve"
    /\ return_pc = "resolve"
    /\ feeds_left = 0
    /\ entries_left = 0
    /\ article_url = ""
    /\ comps_left = 0
    /\ edges_this_article = 0
    /\ run = 1
    /\ processed = NotProcessed
    /\ first_resolved = <<>>
    /\ calls = 0
    /\ budget = 0
    /\ last = NoStep
    /\ InitTiming

\* the record of one resolve_unit call: the reference, the id returned, the
\* minted-units map before the call, and what the first call with this
\* reference returned if there was one
ResolveStep(unit_ref, r, before, firsts) ==
    [op |-> "resolve", ref |-> unit_ref, id |-> r.id, before |-> before,
     repeat |-> unit_ref \in DOMAIN firsts,
     first |-> IF unit_ref \in DOMAIN firsts THEN firsts[unit_ref]
               ELSE [id |-> r.id, minted |-> r.id \notin MapKeys(before)
                                              /\ r.id \in MapKeys(r.map)]]

NoteFirst(firsts, unit_ref, r, before) ==
    IF unit_ref \in DOMAIN firsts THEN firsts
    ELSE [x \in {unit_ref} |->
             [id |-> r.id, minted |-> r.id \notin MapKeys(before)
                                      /\ r.id \in MapKeys(r.map)]] @@ firsts

ResolveCall ==
    /\ pc = "resolve"
    /\ calls < MaxResolveCalls
    /\ \E unit_ref \in RefPool :
         \E r \in resolve_unit(unit_ref, existing_unit_ids, new_units_map, terms_to_id) :
            /\ new_units_map' = r.map
            /\ last' = ResolveStep(unit_ref, r, new_units_map, first_resolved)
            /\ first_resolved' = NoteFirst(first_resolved, unit_ref, r, new_units_map)
    /\ calls' = calls + 1
    /\ UNCHANGED <<units_file, edges_file, args, env, units, edges, existing_unit_ids,
                   existing_source_urls, terms_to_id, max_edge_num_ref, new_edges,
                   dedup_edge_keys, groq_quota_exhausted, gemini_quota_exhausted,
                   pc, return_pc, feeds_left, entries_left, article_url, comps_left,
                   edges_this_article, run, processed, budget, timing>>

NextResolve == ResolveCall

SpecResolve == InitResolve /\ [][NextResolve]_vars

(***************************************************************************)
(* Candidate extractor: call_groq, call_gemini, call_llm                   *)
(*                                                                         *)
(* What a provider does with one request is the environment's choice: it   *)
(* answers with a JSON array of n candidates ("array"), with an object     *)
(* holding such an array under one of the conventional keys ("wrapped"),   *)
(* with JSON of another shape, with text that is not JSON, with a daily    *)
(* quota error, with a transient rate-limit error, or with another error.  *)
(* The candidates of a returned list are drawn when process_article        *)
(* iterates over them.                                                     *)
(***************************************************************************)
Min(a, b) == IF a < b THEN a ELSE b

\* what the provider's API does with a request: a JSON array of n candidates,
\* an object wrapping one, JSON of another shape, text that is not JSON, a
\* daily-quota error, a transient rate-limit error that reports a retry delay
\* or does not, or another error
Responses(maxn) ==
    {[kind |-> k, n |-> n] : k \in {"array", "wrapped"}, n \in 0..maxn}
    \cup {[kind |-> k, n |-> 0] :
             k \in {"bad_shape", "bad_json", "daily_quota", "rate_limited",
                    "rate_limited_no_delay", "error"}}

\* what a provider call reports: answer "none" is Python's None, "list" a list
\* of n candidates; exhausted is the provider's flag after the call
ProviderResult(answer, n, exhausted, requested, slept) ==
    [answer |-> answer, n |-> n, exhausted |-> exhausted,
     requested |-> requested, slept |-> slept]

\* the parsed shapes call_groq returns a list for: a list, or a dict holding
\* a list under "comparisons", "results", "data" or "items"
groq_list_shapes == {"array", "wrapped"}

\* variant: the secondary provider unwraps an object like the primary
gemini_list_shapes_unwrapping == {"array", "wrapped"}

\* the parsed shapes call_gemini returns a list for: isinstance(parsed, list)
gemini_list_shapes == {"array"}

\* variant: the primary provider is requested again after its daily quota
call_groq_ignoring_quota(exhausted, api_key, resp) ==
    IF ~api_key THEN ProviderResult("none", 0, exhausted, FALSE, FALSE)
    ELSE IF resp.kind \in {"array", "wrapped"}
         THEN ProviderResult("list", resp.n, exhausted, TRUE, FALSE)
    ELSE IF resp.kind = "daily_quota" THEN ProviderResult("none", 0, TRUE, TRUE, FALSE)
    ELSE ProviderResult("none", 0, exhausted, TRUE, FALSE)

\* variant: a request is sent although no API key is configured
call_groq_without_key(exhausted, api_key, resp) ==
    IF exhausted THEN ProviderResult("none", 0, TRUE, FALSE, FALSE)
    ELSE IF resp.kind \in groq_list_shapes
         THEN ProviderResult("list", resp.n, FALSE, TRUE, FALSE)
    ELSE IF resp.kind = "daily_quota" THEN ProviderResult("none", 0, TRUE, TRUE, FALSE)
    ELSE IF resp.kind \in {"rate_limited", "rate_limited_no_delay"}
         THEN ProviderResult("none", 0, FALSE, TRUE, TRUE)
    ELSE ProviderResult("none", 0, FALSE, TRUE, FALSE)

call_groq(exhausted, api_key, resp) ==
    IF exhausted THEN ProviderResult("none", 0, TRUE, FALSE, FALSE)
    ELSE IF ~api_key THEN ProviderResult("none", 0, FALSE, FALSE, FALSE)
    ELSE IF resp.kind \in groq_list_shapes
         THEN ProviderResult("list", resp.n, FALSE, TRUE, FALSE)
    ELSE IF resp.kind = "daily_quota" THEN ProviderResult("none", 0, TRUE, TRUE, FALSE)
    ELSE IF resp.kind \in {"rate_limited", "rate_limited_no_delay"}
         THEN ProviderResult("none", 0, FALSE, TRUE, TRUE)
    ELSE ProviderResult("none", 0, FALSE, TRUE, FALSE)

\* variant: any rate-limit error marks the secondary provider exhausted
call_gemini_disabled_by_rate_limit(exhausted, api_key, resp) ==
    IF exhausted THEN ProviderResult("list", 0, TRUE, FALSE, FALSE)
    ELSE IF ~api_key THEN ProviderResult("list", 0, FALSE, FALSE, FALSE)
    ELSE IF resp.kind = "array" THEN ProviderResult("list", resp.n, FALSE, TRUE, FALSE)
    ELSE IF resp.kind \in {"daily_quota", "rate_limited", "rate_limited_no_delay"}
         THEN ProviderResult("list", 0, TRUE, TRUE, FALSE)
    ELSE ProviderResult("list", 0, FALSE, TRUE, FALSE)

call_gemini(exhausted, api_key, resp) ==
    IF exhausted THEN ProviderResult("list", 0, TRUE, FALSE, FALSE)
    ELSE IF ~api_key THEN ProviderResult("list", 0, FALSE, FALSE, FALSE)
    ELSE IF resp.kind \in gemini_list_shapes THEN ProviderResult("list", resp.n, FALSE, TRUE, FALSE)
    ELSE IF resp.kind = "daily_quota" THEN ProviderResult("list", 0, TRUE, TRUE, FALSE)
    ELSE IF resp.kind = "rate_limited" THEN ProviderResult("list", 0, FALSE, TRUE, TRUE)
    ELSE ProviderResult("list", 0, FALSE, TRUE, FALSE)

NotInvoked == [answer |-> "not invoked"]

\* variant: an empty list from the primary provider is treated like no answer
call_llm_fallback_on_empty(groq_exhausted, gemini_exhausted, keys, groq_resp, gemini_resp) ==
    LET result == call_groq(groq_exhausted, keys.groq_key, groq_resp)
    IN IF result.answer # "none" /\ result.n > 0
       THEN [n |-> result.n, groq |-> result, gemini |-> NotInvoked,
             gemini_was_exhausted |-> gemini_exhausted,
             groq_exhausted |-> result.exhausted, gemini_exhausted |-> gemini_exhausted]
       ELSE IF ~gemini_exhausted
       THEN LET fallback == call_gemini(gemini_exhausted, keys.gemini_key, gemini_resp)
            IN [n |-> fallback.n, groq |-> result, gemini |-> fallback,
                gemini_was_exhausted |-> gemini_exhausted,
                groq_exhausted |-> result.exhausted,
                gemini_exhausted |-> fallback.exhausted]
       ELSE [n |-> 0, groq |-> result, gemini |-> NotInvoked,
             gemini_was_exhausted |-> gemini_exhausted,
             groq_exhausted |-> result.exhausted, gemini_exhausted |-> gemini_exhausted]

\* call_llm: the record of the call, with the list returned (its length n) and
\* the two exhaustion flags after the call
call_llm(groq_exhausted, gemini_exhausted, keys, groq_resp, gemini_resp) ==
    LET result == call_groq(groq_exhausted, keys.groq_key, groq_resp)
    IN IF result.answer # "none"
       THEN [n |-> result.n, groq |-> result, gemini |-> NotInvoked,
             gemini_was_exhausted |-> gemini_exhausted,
             groq_exhausted |-> result.exhausted, gemini_exhausted |-> gemini_exhausted]
       ELSE IF ~gemini_exhausted
       THEN LET fallback == call_gemini(gemini_exhausted, keys.gemini_key, gemini_resp)
            IN [n |-> fallback.n, groq |-> result, gemini |-> fallback,
                gemini_was_exhausted |-> gemini_exhausted,
                groq_exhausted |-> result.exhausted,
                gemini_exhausted |-> fallback.exhausted]
       ELSE [n |-> 0, groq |-> result, gemini |-> NotInvoked,
             gemini_was_exhausted |-> gemini_exhausted,
             groq_exhausted |-> result.exhausted, gemini_exhausted |-> gemini_exhausted]

\* the responses to draw for a provider: all of them when a request reaches
\* it, a single unused one when none does
NoResponse == [kind |-> "error", n |-> 0]
ResponsesTo(requested, maxn) == IF requested THEN Responses(maxn) ELSE {NoResponse}
GroqRequested ==
    call_groq(groq_quota_exhausted, env.groq_key, NoResponse).requested
GeminiRequested(groq_resp) ==
    LET c == call_llm(groq_quota_exhausted, gemini_quota_exhausted, env,
                      groq_resp, NoResponse)
    IN c.gemini # NotInvoked /\ c.gemini.requested

\* variant: the run never stops early
all_llms_exhausted_never == FALSE

\* _all_llms_exhausted()
all_llms_exhausted == groq_quota_exhausted /\ gemini_quota_exhausted

(***************************************************************************)
(* process_article                                                         *)
(***************************************************************************)
NoLlmCall == [n |-> 0, groq |-> NotInvoked, gemini |-> NotInvoked]

\* date.today().isoformat() of the run
Today == run

\* process_article up to the loop over the candidates: obtain the text, call
\* the extractor, return when there is no text or no candidate.  ret is where
\* main() continues when process_article returns; maxn bounds the length of
\* the list a provider returns.
ProcessArticleBegin(url, ret, maxn) ==
    /\ processed' = [processed EXCEPT ![url] = @ + 1]
    /\ \E has_text \in BOOLEAN :
         IF ~has_text
         THEN /\ last' = [op |-> "article", url |-> url, text |-> FALSE, llm |-> NoLlmCall]
              /\ pc' = ret
              /\ UNCHANGED <<groq_quota_exhausted, gemini_quota_exhausted, budget,
                             article_url, return_pc, comps_left>>
         ELSE \E groq_resp \in ResponsesTo(GroqRequested, Min(maxn, budget)) :
              \E gemini_resp \in ResponsesTo(GeminiRequested(groq_resp),
                                             Min(maxn, budget)) :
                LET comparisons == call_llm(groq_quota_exhausted, gemini_quota_exhausted,
                                            env, groq_resp, gemini_resp)
                IN /\ groq_quota_exhausted' = comparisons.groq_exhausted
                   /\ gemini_quota_exhausted' = comparisons.gemini_exhausted
                   /\ budget' = budget - comparisons.n
                   /\ last' = [op |-> "article", url |-> url, text |-> TRUE,
                               llm |-> comparisons]
                   /\ IF comparisons.n = 0
                      THEN /\ pc' = ret
                           /\ UNCHANGED <<article_url, return_pc, comps_left>>
                      ELSE /\ pc' = "loop"
                           /\ article_url' = url
                           /\ return_pc' = ret
                           /\ comps_left' = comparisons.n
    /\ edges_this_article' = 0

\* the edge process_article appends
NewEdge(num, from_id, to_id, comp, url) ==
    [id |-> FormatEdgeId(num), from |-> from_id, to |-> to_id,
     factor |-> Float(comp.factor), source_url |-> url,
     source_quote |-> comp.source_quote, date_scraped |-> Today, verified |-> FALSE]

CandidateStep(comp, outcome, from_id, to_id) ==
    [op |-> "candidate", comp |-> comp, outcome |-> outcome,
     from_id |-> from_id, to_id |-> to_id, url |-> article_url,
     admitted_before |-> edges_this_article]

\* variant: the source side alone decides
from_side_new(from_id, to_id, minted) == from_id \in MapKeys(minted)

\* from_is_new and to_is_new: both ids are keys of new_units_map
both_sides_new(from_id, to_id, minted) ==
    from_id \in MapKeys(minted) /\ to_id \in MapKeys(minted)

\* variant: a candidate whose two sides resolve to one unit is not skipped
CandidateOutcomeNoSelfCheck(from_id, to_id, edge_key, filter_both_new, minted, keys) ==
    IF from_id = NoneId \/ to_id = NoneId THEN "unresolved"
    ELSE IF filter_both_new /\ both_sides_new(from_id, to_id, minted) THEN "both_new"
    ELSE IF edge_key \in keys THEN "duplicate"
    ELSE "admitted"

\* the checks of the loop body after both sides are resolved, in code order
CandidateOutcome(from_id, to_id, edge_key, filter_both_new, minted, keys) ==
    IF from_id = NoneId \/ to_id = NoneId THEN "unresolved"
    ELSE IF from_id = to_id THEN "self_loop"
    ELSE IF filter_both_new /\ both_sides_new(from_id, to_id, minted) THEN "both_new"
    ELSE IF edge_key \in keys THEN "duplicate"
    ELSE "admitted"

\* the loop leaves process_article after its last candidate
LoopContinue ==
    /\ comps_left' = comps_left - 1
    /\ pc' = IF comps_left = 1 THEN return_pc ELSE "loop"
    /\ article_url' = IF comps_left = 1 THEN "" ELSE article_url

\* variant: the loop never stops at the cap
cap_reached_never(admitted) == FALSE

\* edges_this_article >= MAX_EDGES_PER_ARTICLE, tested before each candidate
cap_reached(admitted) == admitted >= MAX_EDGES_PER_ARTICLE

\* one iteration of "for comp in comparisons"
LoopStep(comp) ==
    /\ pc = "loop"
    /\ comps_left > 0
    /\ IF cap_reached(edges_this_article)
       THEN /\ last' = CandidateStep(comp, "cap", NoneId, NoneId)
            /\ pc' = return_pc
            /\ comps_left' = 0
            /\ article_url' = ""
            /\ UNCHANGED <<new_units_map, new_edges, dedup_edge_keys, max_edge_num_ref,
                           edges_this_article>>
       ELSE IF validate_comparison_raises(comp)
       THEN /\ last' = CandidateStep(comp, "raised", NoneId, NoneId)
            /\ pc' = "failed"
            /\ comps_left' = 0
            /\ article_url' = ""
            /\ UNCHANGED <<new_units_map, new_edges, dedup_edge_keys, max_edge_num_ref,
                           edges_this_article>>
       ELSE IF ~validate_comparison(comp)
       THEN /\ last' = CandidateStep(comp, "invalid", NoneId, NoneId)
            /\ LoopContinue
            /\ UNCHANGED <<new_units_map, new_edges, dedup_edge_keys, max_edge_num_ref,
                           edges_this_article>>
       ELSE IF resolve_unit_raises(comp.from, terms_to_id)
       THEN /\ last' = CandidateStep(comp, "resolve_raised", NoneId, NoneId)
            /\ pc' = "failed"
            /\ comps_left' = 0
            /\ article_url' = ""
            /\ UNCHANGED <<new_units_map, new_edges, dedup_edge_keys, max_edge_num_ref,
                           edges_this_article>>
       ELSE IF resolve_unit_raises(comp.to, terms_to_id)
       THEN \E f \in resolve_unit(comp.from, existing_unit_ids, new_units_map, terms_to_id) :
            /\ new_units_map' = f.map
            /\ last' = CandidateStep(comp, "resolve_raised", f.id, NoneId)
            /\ pc' = "failed"
            /\ comps_left' = 0
            /\ article_url' = ""
            /\ UNCHANGED <<new_edges, dedup_edge_keys, max_edge_num_ref,
                           edges_this_article>>
       ELSE \E f \in resolve_unit(comp.from, existing_unit_ids, new_units_map, terms_to_id) :
            \E t \in resolve_unit(comp.to, existing_unit_ids, f.map, terms_to_id) :
              LET from_id == f.id
                  to_id == t.id
                  edge_key == <<from_id, to_id, NumKey(Float(comp.factor)), article_url>>
                  outcome == CandidateOutcome(from_id, to_id, edge_key, args.filter_both_new,
                                              t.map, dedup_edge_keys)
              IN /\ new_units_map' = t.map
                 /\ last' = CandidateStep(comp, outcome, from_id, to_id)
                 /\ LoopContinue
                 /\ IF outcome = "admitted"
                    THEN /\ dedup_edge_keys' = dedup_edge_keys \cup {edge_key}
                         /\ max_edge_num_ref' = max_edge_num_ref + 1
                         /\ new_edges' = Append(new_edges,
                                NewEdge(max_edge_num_ref + 1, from_id, to_id, comp, article_url))
                         /\ edges_this_article' = edges_this_article + 1
                    ELSE UNCHANGED <<dedup_edge_keys, max_edge_num_ref, new_edges,
                                     edges_this_article>>
    /\ UNCHANGED <<units_file, edges_file, args, env, units, edges, existing_unit_ids,
                   existing_source_urls, terms_to_id, groq_quota_exhausted,
                   gemini_quota_exhausted, return_pc, feeds_left, entries_left, run,
                   processed, first_resolved, calls, timing, budget>>

(***************************************************************************)
(* Inputs of a run                                                         *)
(***************************************************************************)
DEFAULT_MAX_AGE_HOURS == 26

\* Bounds
MaxRuns == 2            \* runs over the same dataset
MaxFeeds == 2           \* lines of feeds.txt
MaxEntries == 2         \* entries of one feed
MaxCandidates == 2      \* candidates the extractor returns in all, feed mode
MaxArticleCandidates == 4   \* candidates the extractor returns in all, --url mode

JInt(n) == [t |-> "int", n |-> n, d |-> 1]
JFloat(n, d) == [t |-> "float", n |-> n, d |-> d]
NotANumber == [t |-> "str", n |-> 0, d |-> 1]

Comp(from, to, factor, source_quote) ==
    [t |-> "dict", from |-> from, to |-> to, factor |-> factor,
     source_quote |-> source_quote]

c_reef        == Comp(r_wales, r_pitch, JInt(70000000), q_reef)
c_reef_float  == Comp(r_wales, r_pitch, JFloat(70000000, 1), q_reef)
c_self        == Comp(r_wales, r_wales_label, JInt(2), q_upper)
c_whale       == Comp(r_whale, r_bus, JInt(30), q_whale)
c_rocket      == Comp(r_tower, r_wales, JInt(3), q_rocket)
c_zero        == Comp(r_wales, r_pitch, JInt(0), q_reef)
c_no_number   == Comp(r_wales, r_pitch, NotANumber, q_reef)
c_pitch_wales == Comp(r_pitch, r_wales, JFloat(1, 2), q_upper)
c_bus_wales   == Comp(r_bus, r_wales, JInt(3), q_upper)
c_bus_pitch   == Comp(r_bus, r_pitch, JInt(5), q_reef)
c_missing_to  == Comp(r_wales, MissingKey, JInt(2), q_reef)
c_not_object  == [t |-> "other"]
NoFactor == [t |-> "missing", n |-> 0, d |-> 1]
c_no_factor   == Comp(r_wales, r_pitch, NoFactor, q_reef)
c_negative    == Comp(r_wales, r_pitch, JInt(-5), q_reef)
c_missing_from == Comp(MissingKey, r_pitch, JInt(2), q_reef)
c_no_quote    == Comp(r_whale, r_pitch, JInt(2), Absent)
c_empty_quote == Comp(r_whale, r_pitch, JInt(2), <<>>)
c_quote_number == Comp(r_whale, r_pitch, JInt(2), NonStringQuote)

c_whale_tower == Comp(r_whale, r_tower, JInt(3), q_whale)
c_whale_self  == Comp(r_whale, r_whale_label, JInt(2), q_upper)

c_label_number == Comp(r_label_number, r_wales, JInt(2), q_upper)
c_id_number    == Comp(r_whale, r_id_number, JInt(2), q_upper)
c_id_number_bus == Comp(r_id_number_bus, r_wales, JInt(4), q_upper)
c_from_number  == Comp(r_number, r_wales, JInt(2), q_upper)

\* candidates drawn in feed mode and in --url mode
CandPool == {c_reef, c_reef_float, c_whale, c_rocket}
ArticleCandPool == {c_reef, c_reef_float, c_self, c_whale, c_rocket, c_zero,
                    c_no_number, c_pitch_wales, c_bus_wales, c_bus_pitch,
                    c_missing_to, c_not_object}
\* candidates that fail one check of the validator each, and two that pass
InvalidCandPool == {c_not_object, c_missing_from, c_missing_to, c_no_factor,
                    c_no_number, c_zero, c_negative, c_no_quote, c_empty_quote,
                    c_quote_number, c_rocket}
FailCandPool == InvalidCandPool \cup {c_reef, c_bus_wales, c_whale, c_label_number,
                                   c_id_number, c_id_number_bus, c_from_number}
\* candidates that mint a unit on one side or on both sides
FilterCandPool == {c_whale, c_whale_tower, c_whale_self, c_rocket}

\* edges persisted by earlier runs; JSON keeps 70000000 as an int
OldEdge(id, from, to, factor, url) ==
    [id |-> id, from |-> from, to |-> to, factor |-> factor, source_url |-> url,
     source_quote |-> q_reef, date_scraped |-> 0, verified |-> TRUE]

e_old_reef   == OldEdge(id_e001, s_wales, s_a_football_pitch, JInt(70000000), "u1")
e_old_7      == OldEdge(id_e7, s_double_decker_bus, s_wales, JInt(3), "u9")
e_old_legacy == OldEdge(id_legacy, s_wales, s_double_decker_bus, JFloat(1, 2), "u9")

EdgeFiles == {<<>>, <<e_old_reef, e_old_legacy, e_old_7>>}

FeedArgs == {[url |-> "", filter_both_new |-> FALSE,
              max_age_hours |-> DEFAULT_MAX_AGE_HOURS]}
FilterArgs == {[url |-> "", filter_both_new |-> f,
                max_age_hours |-> DEFAULT_MAX_AGE_HOURS] : f \in BOOLEAN}
UrlArgs == {[url |-> "u1", filter_both_new |-> FALSE,
             max_age_hours |-> DEFAULT_MAX_AGE_HOURS]}
Envs == {[groq_key |-> g, gemini_key |-> m] : g, m \in BOOLEAN}
UrlEnvs == {[groq_key |-> TRUE, gemini_key |-> TRUE]}

\* a feed entry: its link ("" when it has none) and its age in hours (NoDate
\* when it carries no date)
NoDate == -1
Entries == {[link |-> l, age |-> a] : l \in Urls \cup {""}, a \in {NoDate, 1, 30}}

\* entry_is_recent(entry, max_age_hours)
entry_is_recent(entry, max_age_hours) ==
    IF max_age_hours = 0 THEN TRUE
    ELSE IF entry.age = NoDate THEN TRUE
    ELSE entry.age * 3600 <= max_age_hours * 3600

(***************************************************************************)
(* main()                                                                  *)
(***************************************************************************)
InitFiles(candidates) ==
    /\ units_file = Catalogue
    /\ edges_file \in EdgeFiles
    /\ args = [url |-> "", filter_both_new |-> FALSE, max_age_hours |-> 0]
    /\ env = [groq_key |-> FALSE, gemini_key |-> FALSE]
    /\ units = <<>>
    /\ edges = <<>>
    /\ existing_unit_ids = {}
    /\ existing_source_urls = {}
    /\ terms_to_id = <<>>
    /\ max_edge_num_ref = 0
    /\ new_units_map = <<>>
    /\ new_edges = <<>>
    /\ dedup_edge_keys = {}
    /\ groq_quota_exhausted = FALSE
    /\ gemini_quota_exhausted = FALSE
    /\ pc = "start"
    /\ return_pc = "write"
    /\ feeds_left = 0
    /\ entries_left = 0
    /\ article_url = ""
    /\ comps_left = 0
    /\ edges_this_article = 0
    /\ run = 1
    /\ processed = NotProcessed
    /\ first_resolved = <<>>
    /\ calls = 0
    /\ budget = candidates
    /\ last = NoStep
    /\ InitTiming

Init == InitFiles(MaxCandidates)
InitArticle == InitFiles(MaxArticleCandidates)

\* a new process: parse the arguments, load both files, build the run state
Load(a, keys, feeds) ==
    /\ pc = "start"
    /\ args' = a
    /\ env' = keys
    /\ units' = units_file
    /\ edges' = edges_file
    /\ existing_unit_ids' = UnitIds(units_file)
    /\ existing_source_urls' = SourceUrls(edges_file)
    /\ terms_to_id' = BuildTermsToId(units_file)
    /\ max_edge_num_ref' = MaxEdgeNum(edges_file)
    /\ new_units_map' = <<>>
    /\ new_edges' = <<>>
    /\ dedup_edge_keys' = DedupKeys(edges_file)
    /\ groq_quota_exhausted' = FALSE
    /\ gemini_quota_exhausted' = FALSE
    /\ processed' = NotProcessed
    /\ feeds_left' = feeds
    /\ pc' = IF a.url # "" THEN "single" ELSE "feeds"
    /\ last' = [op |-> "load"]
    /\ UNCHANGED <<units_file, edges_file, return_pc, entries_left, article_url,
                   comps_left, edges_this_article, run, first_resolved, calls, timing, budget>>

LoadData == \E a \in FeedArgs : \E keys \in Envs : \E feeds \in 0..MaxFeeds :
                Load(a, keys, feeds)

LoadDataUrl == \E a \in UrlArgs : \E keys \in UrlEnvs : Load(a, keys, 0)

\* variant: the URL is not recorded as seen
MarkSeenNot(seen, url) == seen

\* existing_source_urls.add(url)
MarkSeen(seen, url) == seen \cup {url}

\* 2a. single-URL mode: process_article(args.url), whatever was seen before
SingleUrlWith(maxn) ==
    /\ pc = "single"
    /\ ProcessArticleBegin(args.url, "write", maxn)
    /\ UNCHANGED <<units_file, edges_file, args, env, units, edges, existing_unit_ids,
                   existing_source_urls, terms_to_id, max_edge_num_ref, new_units_map,
                   new_edges, dedup_edge_keys, feeds_left, entries_left, run,
                   first_resolved, calls, timing>>

SingleUrl == SingleUrlWith(MaxArticleCandidates)

\* what feedparser.parse gives for one line of feeds.txt: it raises, or it
\* returns no entry with an HTTP error status, no entry with a feed version,
\* no entry and no feed format, or n entries
ParseResults ==
    {[kind |-> k, n |-> 0] : k \in {"exception", "http_error", "empty_feed", "no_format"}}
    \cup {[kind |-> "entries", n |-> n] : n \in 1..MaxEntries}

\* 2b. one iteration of "for feed_idx, feed_url in enumerate(feed_urls, 1)",
\* up to the loop over the entries
NextFeed ==
    /\ pc = "feeds"
    /\ IF feeds_left = 0 \/ all_llms_exhausted
       THEN /\ pc' = "write"
            /\ feeds_left' = 0
            /\ last' = [op |-> "feeds_done", exhausted |-> all_llms_exhausted,
                        left |-> feeds_left]
            /\ UNCHANGED <<existing_source_urls, entries_left, processed,
                           groq_quota_exhausted, gemini_quota_exhausted, budget,
                           article_url, return_pc, comps_left, edges_this_article>>
       ELSE /\ feeds_left' = feeds_left - 1
            /\ \E feed_url \in FeedUrls : \E feed \in ParseResults :
                 IF feed.kind = "entries"
                 THEN /\ entries_left' = feed.n
                      /\ pc' = "entries"
                      /\ last' = [op |-> "feed", url |-> feed_url, kind |-> feed.kind]
                      /\ UNCHANGED <<existing_source_urls, processed,
                                     groq_quota_exhausted, gemini_quota_exhausted, budget,
                                     article_url, return_pc, comps_left,
                                     edges_this_article>>
                 ELSE IF feed.kind = "no_format" /\ feed_url \notin existing_source_urls
                 THEN /\ existing_source_urls' = MarkSeen(existing_source_urls, feed_url)
                      /\ ProcessArticleBegin(feed_url, "feeds", MaxCandidates)
                      /\ UNCHANGED entries_left
                 ELSE /\ pc' = "feeds"
                      /\ last' = [op |-> "feed", url |-> feed_url, kind |-> feed.kind]
                      /\ UNCHANGED <<existing_source_urls, entries_left, processed,
                                     groq_quota_exhausted, gemini_quota_exhausted, budget,
                                     article_url, return_pc, comps_left,
                                     edges_this_article>>
    /\ UNCHANGED <<units_file, edges_file, args, env, units, edges, existing_unit_ids,
                   terms_to_id, max_edge_num_ref, new_units_map, new_edges,
                   dedup_edge_keys, run, first_resolved, calls, timing>>

\* one iteration of "for entry in entries", up to the loop over the candidates
NextEntry ==
    /\ pc = "entries"
    /\ IF entries_left = 0 \/ all_llms_exhausted
       THEN /\ pc' = "feeds"
            /\ entries_left' = 0
            /\ last' = [op |-> "entries_done", exhausted |-> all_llms_exhausted,
                        left |-> entries_left]
            /\ UNCHANGED <<existing_source_urls, processed, groq_quota_exhausted,
                           gemini_quota_exhausted, budget, article_url, return_pc,
                           comps_left, edges_this_article>>
       ELSE /\ entries_left' = entries_left - 1
            /\ \E entry \in Entries :
                 IF \/ entry.link = ""
                    \/ entry.link \in existing_source_urls
                    \/ ~entry_is_recent(entry, args.max_age_hours)
                 THEN /\ pc' = "entries"
                      /\ last' = [op |-> "entry_skipped", url |-> entry.link,
                                  recent |-> entry_is_recent(entry, args.max_age_hours)]
                      /\ UNCHANGED <<existing_source_urls, processed,
                                     groq_quota_exhausted, gemini_quota_exhausted, budget,
                                     article_url, return_pc, comps_left,
                                     edges_this_article>>
                 ELSE /\ existing_source_urls' = MarkSeen(existing_source_urls, entry.link)
                      /\ ProcessArticleBegin(entry.link, "entries", MaxCandidates)
    /\ UNCHANGED <<units_file, edges_file, args, env, units, edges, existing_unit_ids,
                   terms_to_id, max_edge_num_ref, new_units_map, new_edges,
                   dedup_edge_keys, feeds_left, run, first_resolved, calls, timing>>

ProcessCandidate == \E comp \in CandPool : LoopStep(comp)
ProcessArticleCandidate == \E comp \in ArticleCandPool : LoopStep(comp)

\* variant: a collection is saved whatever it gained
SavedAlways(n_new) == TRUE

\* "if n_new_units > 0:", "if n_new_edges > 0:": a collection is extended and
\* saved when it gained something in the run
Saved(n_new) == n_new > 0

\* variant: only the additions of the run are saved
WriteResultsOnlyNew ==
    /\ pc = "write"
    /\ units' = IF Len(new_units_map) > 0 THEN new_units_map ELSE units
    /\ units_file' = IF Len(new_units_map) > 0 THEN new_units_map ELSE units_file
    /\ edges' = IF Len(new_edges) > 0 THEN new_edges ELSE edges
    /\ edges_file' = IF Len(new_edges) > 0 THEN new_edges ELSE edges_file
    /\ last' = [op |-> "write", units_saved |-> Len(new_units_map) > 0,
                edges_saved |-> Len(new_edges) > 0, printed |-> Len(new_edges)]
    /\ pc' = "done"
    /\ UNCHANGED <<args, env, existing_unit_ids, existing_source_urls, terms_to_id,
                   max_edge_num_ref, new_units_map, new_edges, dedup_edge_keys,
                   groq_quota_exhausted, gemini_quota_exhausted, return_pc, feeds_left,
                   entries_left, article_url, comps_left, edges_this_article, run,
                   processed, first_resolved, calls, timing, budget>>

\* 4. write results: both lists are extended and saved when they gained
\* something, and the count of new edges is printed
WriteResults ==
    /\ pc = "write"
    /\ LET n_new_units == Len(new_units_map)
           n_new_edges == Len(new_edges)
       IN /\ units' = IF Saved(n_new_units) THEN units \o new_units_map ELSE units
          /\ units_file' = IF Saved(n_new_units) THEN units \o new_units_map
                           ELSE units_file
          /\ edges' = IF Saved(n_new_edges) THEN edges \o new_edges ELSE edges
          /\ edges_file' = IF Saved(n_new_edges) THEN edges \o new_edges ELSE edges_file
          /\ last' = [op |-> "write", units_saved |-> Saved(n_new_units),
                      edges_saved |-> Saved(n_new_edges), printed |-> n_new_edges]
    /\ pc' = "done"
    /\ UNCHANGED <<args, env, existing_unit_ids, existing_source_urls, terms_to_id,
                   max_edge_num_ref, new_units_map, new_edges, dedup_edge_keys,
                   groq_quota_exhausted, gemini_quota_exhausted, return_pc, feeds_left,
                   entries_left, article_url, comps_left, edges_this_article, run,
                   processed, first_resolved, calls, timing, budget>>

\* the scheduler starts the scraper again on the dataset the last run left
NextRun ==
    /\ pc = "done"
    /\ run < MaxRuns
    /\ run' = run + 1
    /\ pc' = "start"
    /\ last' = [op |-> "exit"]
    /\ units' = <<>>
    /\ edges' = <<>>
    /\ existing_unit_ids' = {}
    /\ existing_source_urls' = {}
    /\ terms_to_id' = <<>>
    /\ max_edge_num_ref' = 0
    /\ new_units_map' = <<>>
    /\ new_edges' = <<>>
    /\ dedup_edge_keys' = {}
    /\ edges_this_article' = 0
    /\ groq_quota_exhausted' = FALSE
    /\ gemini_quota_exhausted' = FALSE
    /\ processed' = NotProcessed
    /\ UNCHANGED <<units_file, edges_file, args, env, return_pc, feeds_left,
                   entries_left, article_url, comps_left, first_resolved, calls, timing,
                   budget>>

\* one run in feed mode
Next == LoadData \/ NextFeed \/ NextEntry \/ ProcessCandidate \/ WriteResults

Spec == Init /\ [][Next]_vars

\* one run in --url mode, any candidates
NextArticle == LoadDataUrl \/ SingleUrl \/ ProcessArticleCandidate \/ WriteResults

SpecArticle == InitArticle /\ [][NextArticle]_vars

\* successive runs in --url mode over the dataset the run before left
NextRuns == LoadDataUrl \/ SingleUrl \/ ProcessCandidate \/ WriteResults \/ NextRun

SpecRuns == Init /\ [][NextRuns]_vars

\* one run in either mode
NextModes ==
    \/ LoadData \/ LoadDataUrl \/ SingleUrl \/ NextFeed \/ NextEntry
    \/ ProcessCandidate \/ WriteResults

SpecModes == Init /\ [][NextModes]_vars


\* one run in feed mode with --filter-both-new given or not
LoadDataFilter == \E a \in FilterArgs : \E keys \in UrlEnvs : \E feeds \in 0..MaxFeeds :
                      Load(a, keys, feeds)

ProcessFilterCandidate == \E comp \in FilterCandPool : LoopStep(comp)

NextFilter ==
    LoadDataFilter \/ NextFeed \/ NextEntry \/ ProcessFilterCandidate \/ WriteResults

\* the dataset holds no edge yet
InitFilter == Init /\ edges_file = <<>>

SpecFilter == InitFilter /\ [][NextFilter]_vars

\* call_llm called for one article after another, whatever the flags are
CallLlm ==
    /\ pc = "feeds"
    /\ \E groq_resp \in ResponsesTo(GroqRequested, MaxCandidates) :
       \E gemini_resp \in ResponsesTo(GeminiRequested(groq_resp), MaxCandidates) :
         LET comparisons == call_llm(groq_quota_exhausted, gemini_quota_exhausted,
                                     env, groq_resp, gemini_resp)
         IN /\ groq_quota_exhausted' = comparisons.groq_exhausted
            /\ gemini_quota_exhausted' = comparisons.gemini_exhausted
            /\ last' = [op |-> "call_llm", llm |-> comparisons,
                        groq_resp |-> groq_resp.kind, gemini_resp |-> gemini_resp.kind,
                        groq_len |-> groq_resp.n, gemini_len |-> gemini_resp.n,
                        groq_was_exhausted |-> groq_quota_exhausted]
    /\ UNCHANGED <<units_file, edges_file, args, env, units, edges, existing_unit_ids,
                   existing_source_urls, terms_to_id, max_edge_num_ref, new_units_map,
                   new_edges, dedup_edge_keys, pc, return_pc, feeds_left, entries_left,
                   article_url, comps_left, edges_this_article, run, processed,
                   first_resolved, calls, timing, budget>>

NextLlm == LoadData \/ CallLlm

SpecLlm == Init /\ [][NextLlm]_vars


(***************************************************************************)
(* Failures: an exception leaves main() and reaches the handler of the     *)
(* __main__ block                                                          *)
(***************************************************************************)
ProcessFailCandidate == \E comp \in FailCandPool : LoopStep(comp)

\* load_json raises (a file is missing or is not JSON)
LoadFails ==
    /\ pc = "start"
    /\ pc' = "failed"
    /\ last' = [op |-> "raised", at |-> "load"]
    /\ UNCHANGED <<units_file, edges_file, args, env, units, edges, existing_unit_ids,
                   existing_source_urls, terms_to_id, max_edge_num_ref, new_units_map,
                   new_edges, dedup_edge_keys, groq_quota_exhausted,
                   gemini_quota_exhausted, return_pc, feeds_left, entries_left,
                   article_url, comps_left, edges_this_article, run, processed,
                   first_resolved, calls, timing, budget>>

\* variant: the edges are saved first and save_json raises on the units
WriteFailsEdgesFirst ==
    /\ pc = "write"
    /\ Saved(Len(new_units_map)) \/ Saved(Len(new_edges))
    /\ edges_file' = IF Saved(Len(new_edges)) THEN edges \o new_edges ELSE edges_file
    /\ edges' = IF Saved(Len(new_edges)) THEN edges \o new_edges ELSE edges
    /\ last' = [op |-> "raised", at |-> "write", units_saved |-> FALSE]
    /\ pc' = "failed"
    /\ UNCHANGED <<units_file, units, args, env, existing_unit_ids,
                   existing_source_urls, terms_to_id, max_edge_num_ref, new_units_map,
                   new_edges, dedup_edge_keys, groq_quota_exhausted,
                   gemini_quota_exhausted, return_pc, feeds_left, entries_left,
                   article_url, comps_left, edges_this_article, run, processed,
                   first_resolved, calls, timing, budget>>

\* save_json raises, on the units or, the units saved if there are any, on
\* the edges
WriteFails ==
    /\ pc = "write"
    /\ Saved(Len(new_units_map)) \/ Saved(Len(new_edges))
    /\ \E units_written \in BOOLEAN :
         /\ units_written => (Saved(Len(new_units_map)) /\ Saved(Len(new_edges)))
         /\ units_file' = IF units_written THEN units \o new_units_map ELSE units_file
         /\ units' = IF Saved(Len(new_units_map)) THEN units \o new_units_map ELSE units
         /\ last' = [op |-> "raised", at |-> "write", units_saved |-> units_written]
    /\ pc' = "failed"
    /\ UNCHANGED <<edges_file, args, env, edges, existing_unit_ids,
                   existing_source_urls, terms_to_id, max_edge_num_ref, new_units_map,
                   new_edges, dedup_edge_keys, groq_quota_exhausted,
                   gemini_quota_exhausted, return_pc, feeds_left, entries_left,
                   article_url, comps_left, edges_this_article, run, processed,
                   first_resolved, calls, timing, budget>>

\* variant: the exception leaves the process, which reports nothing and exits
\* with an error status
ErrorBoundaryMissing ==
    /\ pc = "failed"
    /\ pc' = "done"
    /\ last' = [op |-> "error_boundary", printed |-> -1, status |-> 1, after |-> last]
    /\ UNCHANGED <<units_file, edges_file, args, env, units, edges, existing_unit_ids,
                   existing_source_urls, terms_to_id, max_edge_num_ref, new_units_map,
                   new_edges, dedup_edge_keys, groq_quota_exhausted,
                   gemini_quota_exhausted, return_pc, feeds_left, entries_left,
                   article_url, comps_left, edges_this_article, run, processed,
                   first_resolved, calls, timing, budget>>

\* "except Exception": print NEW_EDGES=0 and sys.exit(0)
ErrorBoundary ==
    /\ pc = "failed"
    /\ pc' = "done"
    /\ last' = [op |-> "error_boundary", printed |-> 0, status |-> 0, after |-> last]
    /\ UNCHANGED <<units_file, edges_file, args, env, units, edges, existing_unit_ids,
                   existing_source_urls, terms_to_id, max_edge_num_ref, new_units_map,
                   new_edges, dedup_edge_keys, groq_quota_exhausted,
                   gemini_quota_exhausted, return_pc, feeds_left, entries_left,
                   article_url, comps_left, edges_this_article, run, processed,
                   first_resolved, calls, timing, budget>>

\* one run in --url mode in which steps may raise
NextFail ==
    \/ LoadDataUrl \/ LoadFails \/ SingleUrl \/ ProcessFailCandidate
    \/ WriteResults \/ WriteFails \/ ErrorBoundary

SpecFail == InitArticle /\ [][NextFail]_vars


(***************************************************************************)
(* Call spacing of the two providers                                       *)
(***************************************************************************)
GROQ_RPM == 25
GEMINI_RPM == 5

MaxLlmCalls == 2        \* timed call_llm calls of one run

\* min_interval = 60.0 / RPM, in tenths of a second
min_interval(rpm) == 600 \div rpm

\* variant: the provider never sleeps before a request
rate_limit_wait_none(elapsed, interval) == 0

\* "if elapsed < min_interval: wait = min_interval - elapsed": what the
\* provider sleeps before a request
rate_limit_wait(elapsed, interval) ==
    IF elapsed < interval THEN interval - elapsed ELSE 0

\* the sleep of call_groq after a temporary rate limit: the retry-after of the
\* error when it names one, else 60 seconds
groq_retry_sleep(kind) == IF kind = "rate_limited" THEN 70 ELSE 600

\* the sleep of call_gemini after an error naming a retry_delay
gemini_retry_sleep(kind) == IF kind = "rate_limited" THEN 70 ELSE 0

\* time passing between two call_llm calls, and the time a request takes
Gaps == {0, 10, 130}
RequestTimes == {0, 30}

\* one call_llm with the clock: call_groq sleeps what is left of its interval,
\* stamps _last_groq_call and sends the request; call_gemini, when call_llm
\* falls back to it, does the same with its own timestamp
CallLlmTimed ==
    /\ pc = "feeds"
    /\ llm_calls < MaxLlmCalls
    /\ llm_calls' = llm_calls + 1
    /\ \E gap \in Gaps : \E took \in RequestTimes :
       \E groq_resp \in ResponsesTo(GroqRequested, 1) :
       \E gemini_resp \in ResponsesTo(GeminiRequested(groq_resp), 1) :
         LET comparisons == call_llm(groq_quota_exhausted, gemini_quota_exhausted,
                                     env, groq_resp, gemini_resp)
             start == now + gap
             groq_requested == comparisons.groq.requested
             groq_wait == rate_limit_wait(start - last_groq_call, min_interval(GROQ_RPM))
             groq_at == start + groq_wait
             groq_end == IF ~groq_requested THEN start
                         ELSE groq_at + took
                              + (IF comparisons.groq.slept
                                 THEN groq_retry_sleep(groq_resp.kind) ELSE 0)
             gemini_requested == /\ comparisons.gemini # NotInvoked
                                 /\ comparisons.gemini.requested
             gemini_wait == rate_limit_wait(groq_end - last_gemini_call,
                                            min_interval(GEMINI_RPM))
             gemini_at == groq_end + gemini_wait
             gemini_end == IF ~gemini_requested THEN groq_end
                           ELSE gemini_at + took
                                + (IF comparisons.gemini.slept
                                   THEN gemini_retry_sleep(gemini_resp.kind) ELSE 0)
         IN /\ groq_quota_exhausted' = comparisons.groq_exhausted
            /\ gemini_quota_exhausted' = comparisons.gemini_exhausted
            /\ last_groq_call' = IF groq_requested THEN groq_at ELSE last_groq_call
            /\ last_gemini_call' = IF gemini_requested THEN gemini_at
                                   ELSE last_gemini_call
            /\ sent' = [groq |-> IF groq_requested THEN Append(sent.groq, groq_at)
                                 ELSE sent.groq,
                        gemini |-> IF gemini_requested THEN Append(sent.gemini, gemini_at)
                                   ELSE sent.gemini]
            /\ now' = gemini_end
            /\ last' = [op |-> "timed_call", start |-> start,
                        groq_requested |-> groq_requested,
                        groq_slept |-> IF groq_requested THEN groq_wait ELSE 0,
                        gemini_requested |-> gemini_requested,
                        gemini_start |-> groq_end,
                        gemini_slept |-> IF gemini_requested THEN gemini_wait ELSE 0]
    /\ UNCHANGED <<units_file, edges_file, args, env, units, edges, existing_unit_ids,
                   existing_source_urls, terms_to_id, max_edge_num_ref, new_units_map,
                   new_edges, dedup_edge_keys, pc, return_pc, feeds_left, entries_left,
                   article_url, comps_left, edges_this_article, run, processed,
                   first_resolved, calls, budget>>

LoadDataTimed == \E a \in FeedArgs : \E keys \in Envs : Load(a, keys, 0)

NextSpacing == LoadDataTimed \/ CallLlmTimed

SpecSpacing == InitFilter /\ [][NextSpacing]_vars


(***************************************************************************)
(* Properties                                                              *)
(***************************************************************************)
s_wales_2 == s_wales \o <<"_", "2">>

\* C4: the ids minted in the run are disjoint from the ids loaded from the
\* catalogue, so the collection that is persisted (the catalogue followed by
\* the minted units) never holds two units with the same id.
UnitIdsUnique ==
    /\ MapKeys(new_units_map) \cap existing_unit_ids = {}
    /\ LET all == units \o new_units_map
       IN \A i, j \in DOMAIN all : all[i].id = all[j].id => i = j

\* a proposal whose candidate id is the catalogue id "wales" was minted
UnitIdsUniqueWitness ==
    /\ last.op = "resolve" /\ last.ref = r_stadium
    /\ s_wales \in existing_unit_ids
    /\ s_wales_2 \in MapKeys(new_units_map)

\* C5: a reference whose first resolution in the run minted a unit resolves,
\* on every later call in the run and whatever was resolved in between, to the
\* id the first call returned, and the later call adds no entry to the
\* minted-units map.
ResolveIdempotent ==
    (last.op = "resolve" /\ last.repeat /\ last.first.minted)
        => /\ last.id = last.first.id
           /\ MapKeys(new_units_map) = MapKeys(last.before)
           /\ Len(new_units_map) = Len(last.before)

\* the proposal whose id was suffixed on the first call is resolved again
\* after a different reference was resolved
ResolveIdempotentWitness ==
    /\ last.op = "resolve" /\ last.repeat /\ last.first.minted
    /\ last.ref = r_stadium /\ last.id = s_wales_2
    /\ Cardinality(DOMAIN first_resolved) >= 2

\* the ids of the catalogue units one of whose terms (id, label or an alias)
\* equals, ignoring case, the label or an alias of the proposal
CatalogueMatches(unit_ref) ==
    LET proposed == (IF unit_ref.label = Absent THEN {} ELSE {unit_ref.label})
                    \cup Range(unit_ref.aliases)
        TermsOf(u) == {u.id, u.label} \cup Range(u.aliases)
    IN {u.id : u \in {x \in Range(units) :
                        \E p \in proposed : \E t \in TermsOf(x) : Lower(p) = Lower(t)}}

\* C6: a structured proposal whose label or one of whose aliases equals,
\* ignoring case, an id, label or alias of a catalogue unit resolves to the id
\* of such a unit and leaves the minted-units map as it was, whatever the id
\* field of the proposal says.
MintingDedupByTerms ==
    (last.op = "resolve" /\ last.ref.t = "dict" /\ CatalogueMatches(last.ref) # {})
        => /\ last.id \in CatalogueMatches(last.ref)
           /\ new_units_map = last.before

\* a proposal with its own id "london_bus" and the alias "Double-Decker Buses"
\* resolved to the catalogue unit double_decker_bus
MintingDedupByTermsWitness ==
    /\ last.op = "resolve" /\ last.ref = r_london_bus
    /\ last.id = s_double_decker_bus

\* two edges with the same (from, to, factor, source_url); factors are compared
\* as numbers
SameTuple(e1, e2) ==
    /\ e1.from = e2.from
    /\ e1.to = e2.to
    /\ e1.factor.n * e2.factor.d = e2.factor.n * e1.factor.d
    /\ e1.source_url = e2.source_url

NoSharedTuple(es) == \A i, j \in DOMAIN es : SameTuple(es[i], es[j]) => i = j

Running == pc \in {"single", "feeds", "entries", "loop", "write"}

\* C1: starting from persisted edges no two of which share (from, to, factor,
\* source_url), at every point of every run no two edges among the loaded
\* edges and the edges admitted in the run share that tuple, and neither do
\* two edges of the persisted collection after any number of runs.
EdgesUnique ==
    /\ NoSharedTuple(edges_file)
    /\ Running => NoSharedTuple(edges \o new_edges)

\* a later run is offered a comparison whose edge an earlier run persisted,
\* and skips it as a duplicate
EdgesUniqueWitness ==
    /\ run = 2
    /\ last.op = "candidate" /\ last.outcome = "duplicate"
    /\ \E i \in DOMAIN edges :
         /\ edges[i].date_scraped = 1
         /\ edges[i].from = last.from_id /\ edges[i].to = last.to_id
         /\ edges[i].source_url = last.url

\* C2: no edge appended by process_article has from = to, the two being the
\* resolved unit ids.
NoSelfLoops == \A i \in DOMAIN new_edges : new_edges[i].from # new_edges[i].to

\* a candidate naming a unit by its id on one side and by its label on the
\* other was resolved to that one unit on both sides and dropped
NoSelfLoopsWitness ==
    /\ last.op = "candidate" /\ last.outcome = "self_loop"
    /\ last.comp.from # last.comp.to
    /\ last.from_id = s_wales /\ last.to_id = s_wales

LoadedMax ==
    LET nums == {0} \cup {EdgeIdNum(edges[i].id) : i \in DOMAIN edges}
    IN CHOOSE m \in nums : \A x \in nums : x <= m

AnsweredNone(llm) == llm.groq.answer = "none"

\* C7 as stated: whenever the primary provider gives no answer the secondary
\* is invoked for the same article and its result returned; a list from the
\* primary, empty or not, is returned without invoking the secondary.
FallbackAlways ==
    (last.op = "article" /\ last.text)
        => /\ AnsweredNone(last.llm)
                => (last.llm.gemini # NotInvoked /\ last.llm.n = last.llm.gemini.n)
           /\ last.llm.groq.answer = "list"
                => (last.llm.gemini = NotInvoked /\ last.llm.n = last.llm.groq.n)

\* C7, amended: when the primary provider gives no answer, the secondary is
\* invoked for the same article and its result returned unless the secondary
\* is already quota-exhausted, in which case it is not invoked and the empty
\* list is returned; a list from the primary, empty or not, is returned
\* without invoking the secondary.
FallbackUnlessExhausted ==
    (last.op = "article" /\ last.text)
        => /\ (AnsweredNone(last.llm) /\ ~last.llm.gemini_was_exhausted)
                => (last.llm.gemini # NotInvoked /\ last.llm.n = last.llm.gemini.n)
           /\ (AnsweredNone(last.llm) /\ last.llm.gemini_was_exhausted)
                => (last.llm.gemini = NotInvoked /\ last.llm.n = 0)
           /\ last.llm.groq.answer = "list"
                => (last.llm.gemini = NotInvoked /\ last.llm.n = last.llm.groq.n)

\* the primary provider reported its daily quota exhausted and the secondary
\* returned candidates for that article
FallbackUnlessExhaustedWitness ==
    /\ last.op = "article" /\ last.text
    /\ AnsweredNone(last.llm)
    /\ last.llm.groq.requested /\ last.llm.groq.exhausted
    /\ last.llm.gemini # NotInvoked /\ last.llm.gemini.requested
    /\ last.llm.n > 0

NoPhrase(quote) == \A kw \in COMPARISON_KEYWORDS : ~Contains(Lower(quote), kw)

PositiveNumber(f) == f.t \in {"int", "float"} /\ f.n > 0 /\ f.d > 0

\* a candidate object with both sides present and a positive numeric factor
WellFormedSides(comp) ==
    /\ comp.t = "dict"
    /\ comp.from.t \in {"str", "dict"} /\ comp.to.t \in {"str", "dict"}
    /\ PositiveNumber(comp.factor)

\* C8: a candidate whose source_quote contains none of the comparison phrase
\* fragments, compared case-insensitively as substrings, is rejected by the
\* validator although its from, to and factor are well-formed: the step that
\* handles it appends no edge and mints no unit.
RejectsUnsupportedPhrasing ==
    [][(/\ last'.op = "candidate"
        /\ WellFormedSides(last'.comp)
        /\ NoPhrase(last'.comp.source_quote))
       => (/\ last'.outcome \in {"invalid", "cap"}
           /\ new_edges' = new_edges
           /\ new_units_map' = new_units_map)]_vars

\* a candidate proposing the new unit Eiffel Tower with a quote that holds no
\* comparison phrase was rejected before the cap was reached, and the unit was
\* not minted
RejectsUnsupportedPhrasingWitness ==
    /\ last.op = "candidate" /\ last.comp = c_rocket
    /\ last.outcome = "invalid"
    /\ last.admitted_before < MAX_EDGES_PER_ARTICLE
    /\ slugify(s_Eiffel_Tower) \notin MapKeys(new_units_map)

\* the candidate names, by their ids, two different units of the loaded
\* catalogue, with a positive number and a quote that holds a phrase, and no
\* loaded or admitted edge has its (from, to, factor, source_url)
SupportedCandidate(comp) ==
    /\ comp.t = "dict"
    /\ comp.from.t = "str" /\ comp.to.t = "str"
    /\ comp.from.s \in UnitIds(units) /\ comp.to.s \in UnitIds(units)
    /\ comp.from.s # comp.to.s
    /\ PositiveNumber(comp.factor)
    /\ ~NoPhrase(comp.source_quote)
    /\ \A i \in DOMAIN (edges \o new_edges) :
         LET e == (edges \o new_edges)[i]
         IN ~(/\ e.from = comp.from.s /\ e.to = comp.to.s
              /\ e.factor.n * comp.factor.d = comp.factor.n * e.factor.d
              /\ e.source_url = article_url)

\* the step appends exactly one edge, made of the candidate
AppendsEdgeOf(comp) ==
    /\ Len(new_edges') = Len(new_edges) + 1
    /\ SubSeq(new_edges', 1, Len(new_edges)) = new_edges
    /\ LET e == new_edges'[Len(new_edges')]
       IN /\ e.from = comp.from.s /\ e.to = comp.to.s
          /\ e.factor.n * comp.factor.d = comp.factor.n * e.factor.d
          /\ e.source_url = article_url
          /\ e.source_quote = comp.source_quote
          /\ e.verified = FALSE

AllUnverified(es) == \A i \in DOMAIN es : es[i].verified = FALSE

\* C9 as stated: every candidate naming two different catalogue units, with a
\* positive numeric factor and a quote holding a recognized phrase, whose
\* dedup key is not yet present, appends exactly one edge carrying the
\* resolved ids, the factor, the article URL and the quote; every edge
\* process_article creates has verified = false.
AcceptsSupportedPhrasingAlways ==
    [][/\ (last'.op = "candidate" /\ SupportedCandidate(last'.comp))
            => (last'.outcome = "admitted" /\ AppendsEdgeOf(last'.comp))
       /\ AllUnverified(new_edges')]_vars

\* C9, amended: such a candidate appends exactly one edge carrying the
\* resolved ids, the factor, the article URL and the quote provided the
\* article has not yet had MAX_EDGES_PER_ARTICLE edges admitted; every edge
\* process_article creates has verified = false.
AcceptsSupportedPhrasing ==
    [][/\ (/\ last'.op = "candidate" /\ SupportedCandidate(last'.comp)
           /\ edges_this_article < MAX_EDGES_PER_ARTICLE)
            => (last'.outcome = "admitted" /\ AppendsEdgeOf(last'.comp))
       /\ AllUnverified(new_edges')]_vars

\* the reef candidate against a catalogue holding wales and a_football_pitch
\* was admitted as an unverified edge
AcceptsSupportedPhrasingWitness ==
    /\ last.op = "candidate" /\ last.comp = c_reef /\ last.outcome = "admitted"
    /\ new_edges # <<>>
    /\ LET e == new_edges[Len(new_edges)]
       IN /\ e.from = s_wales /\ e.to = s_a_football_pitch
          /\ e.factor.n = 70000000 /\ e.source_url = last.url
          /\ e.verified = FALSE

\* C10: in feed mode process_article is called at most once per run for any
\* article URL, whether the URL comes up as an entry of two feeds, twice in
\* one feed, or as a feed line that is itself an article.
ProcessedAtMostOnce == \A u \in DOMAIN processed : processed[u] <= 1

\* a recent entry is skipped because its URL was processed earlier in the run
ProcessedAtMostOnceWitness ==
    /\ last.op = "entry_skipped" /\ last.recent
    /\ last.url \in DOMAIN processed
    /\ processed[last.url] = 1

\* source URLs of the edges loaded by the run
CataloguedUrls == {edges[i].source_url : i \in DOMAIN edges} \cap DOMAIN processed

\* C11 as stated: in a run driven by a single explicit article or by feed
\* entries, process_article is not called for a URL that is the source_url of
\* a persisted edge.
NoReprocessing == Running => \A u \in CataloguedUrls : processed[u] = 0

\* C11, amended: in feed mode process_article is not called for a URL that is
\* the source_url of a persisted edge; in single-URL mode the article given
\* is processed whether or not its URL is the source_url of a persisted edge.
NoReprocessingInFeedMode ==
    /\ (Running /\ args.url = "") => \A u \in CataloguedUrls : processed[u] = 0
    /\ (args.url # "" /\ pc \in {"loop", "write"}) => processed[args.url] = 1

\* feed mode: a recent entry whose URL is the source of a persisted edge was
\* skipped without a call of process_article
NoReprocessingInFeedModeWitness ==
    /\ args.url = ""
    /\ last.op = "entry_skipped" /\ last.recent
    /\ last.url \in CataloguedUrls
    /\ processed[last.url] = 0

\* a request was sent to the provider during the call
Requested(p) == p # NotInvoked /\ p.requested

\* C12: a provider that receives a daily-quota response has its exhausted flag
\* set; a flag that is set stays set for the rest of the run; a call of
\* call_llm made while a provider's flag is set sends no request to that
\* provider; and a call made while both flags are set returns the empty list
\* without a request to either.
QuotaExhaustionPermanent ==
    [][/\ (/\ last'.op = "call_llm" /\ Requested(last'.llm.groq)
           /\ last'.groq_resp = "daily_quota") => groq_quota_exhausted'
       /\ (/\ last'.op = "call_llm" /\ Requested(last'.llm.gemini)
           /\ last'.gemini_resp = "daily_quota") => gemini_quota_exhausted'
       /\ groq_quota_exhausted => groq_quota_exhausted'
       /\ gemini_quota_exhausted => gemini_quota_exhausted'
       /\ (groq_quota_exhausted /\ last'.op = "call_llm")
            => ~Requested(last'.llm.groq)
       /\ (gemini_quota_exhausted /\ last'.op = "call_llm")
            => ~Requested(last'.llm.gemini)
       /\ (groq_quota_exhausted /\ gemini_quota_exhausted /\ last'.op = "call_llm")
            => (/\ last'.llm.n = 0
                /\ ~Requested(last'.llm.groq) /\ ~Requested(last'.llm.gemini))
      ]_vars

\* with both API keys configured, call_llm was called after both providers had
\* reported their daily quota, and returned the empty list
QuotaExhaustionPermanentWitness ==
    /\ env.groq_key /\ env.gemini_key
    /\ last.op = "call_llm"
    /\ last.groq_was_exhausted /\ last.llm.gemini_was_exhausted
    /\ last.llm.n = 0
    /\ ~Requested(last.llm.groq) /\ ~Requested(last.llm.gemini)
    /\ groq_quota_exhausted /\ gemini_quota_exhausted

BothExhausted == groq_quota_exhausted /\ gemini_quota_exhausted

\* C13: in feed mode, from the moment both providers are quota-exhausted no
\* further feed is parsed and process_article is called for no further URL;
\* the loop over the entries and the loop over the feeds are left, and the
\* run writes and reports the edges admitted until then.
EarlyTermination ==
    [][BothExhausted
        => /\ last'.op \notin {"article", "feed", "entry_skipped"}
           /\ processed' = processed
           /\ pc = "entries" => (pc' = "feeds" /\ last'.op = "entries_done")
           /\ pc = "feeds" => (pc' = "write" /\ last'.op = "feeds_done")
           /\ pc = "write" => (/\ last'.op = "write"
                               /\ last'.printed = Len(new_edges)
                               /\ new_edges # <<>> => edges_file' = edges \o new_edges)
      ]_vars

\* the second provider became exhausted on an article of a later feed, after
\* an edge had been admitted; the loop over the entries was left with an entry
\* still to come
EarlyTerminationWitness ==
    /\ last.op = "entries_done" /\ last.exhausted /\ last.left > 0
    /\ BothExhausted
    /\ new_edges # <<>>

\* C14: the step that ends a run leaves as persisted edges the edges persisted
\* before, unchanged and in their order, followed by the edges admitted in the
\* run in admission order, and as persisted units the units persisted before
\* followed by the units minted in the run; no other step of the run touches
\* either collection.
AppendOnlyPersistence ==
    [][IF last'.op = "write"
       THEN /\ edges_file' = edges_file \o new_edges
            /\ units_file' = units_file \o new_units_map
       ELSE /\ edges_file' = edges_file
            /\ units_file' = units_file]_vars

\* a run over three persisted edges admitted edges and minted a unit, and both
\* collections were saved
AppendOnlyPersistenceWitness ==
    /\ last.op = "write" /\ last.units_saved /\ last.edges_saved
    /\ Len(new_edges) >= 2 /\ Len(new_units_map) >= 1
    /\ Len(edges_file) = 3 + Len(new_edges)
    /\ Len(units_file) = Len(Catalogue) + Len(new_units_map)
    /\ edges_file[2] = e_old_legacy

NothingNew == new_units_map = <<>> /\ new_edges = <<>>

\* C15 as stated: at the end of a run neither collection is written when no
\* unit was minted and no edge admitted, and both collections are written in
\* full when at least one unit was minted or one edge admitted.
PersistsBothOrNeither ==
    [][last'.op = "write"
        => /\ last'.units_saved = ~NothingNew
           /\ last'.edges_saved = ~NothingNew
           /\ last'.units_saved => units_file' = units \o new_units_map
           /\ last'.edges_saved => edges_file' = edges \o new_edges
           /\ ~last'.units_saved => units_file' = units_file
           /\ ~last'.edges_saved => edges_file' = edges_file]_vars

\* C15, amended: at the end of a run the unit collection is written in full
\* exactly when at least one unit was minted, and the edge collection is
\* written in full exactly when at least one edge was admitted; when both
\* counts are zero neither is written.
PersistsEachWhenItGrew ==
    [][last'.op = "write"
        => /\ last'.units_saved = (new_units_map # <<>>)
           /\ last'.edges_saved = (new_edges # <<>>)
           /\ last'.units_saved => units_file' = units \o new_units_map
           /\ last'.edges_saved => edges_file' = edges \o new_edges
           /\ ~last'.units_saved => units_file' = units_file
           /\ ~last'.edges_saved => edges_file' = edges_file]_vars

\* a run that admitted edges between catalogue units and minted none saved
\* the edges and left the units alone
PersistsEachWhenItGrewWitness ==
    /\ last.op = "write"
    /\ new_edges # <<>> /\ new_units_map = <<>>
    /\ last.edges_saved /\ ~last.units_saved
    /\ units_file = Catalogue

\* C16: a run in which a step raises ends with the report of zero new edges
\* and the exit status of success; a run in which no step raises ends with
\* the report of the number of edges admitted in the run; every run ends with
\* one of the two.
ErrorBoundaryReportsZero ==
    /\ last.op = "error_boundary" => (last.printed = 0 /\ last.status = 0)
    /\ last.op = "write" => last.printed = Len(new_edges)
    /\ pc = "done" => last.op \in {"error_boundary", "write"}
    /\ pc = "failed" =>
          \/ last.op = "raised"
          \/ last.op = "candidate" /\ last.outcome \in {"raised", "resolve_raised"}

\* an exception raised while a candidate was validated, after an edge had been
\* admitted, ended the run with the report of zero edges and nothing saved
ErrorBoundaryReportsZeroWitness ==
    /\ last.op = "error_boundary"
    /\ last.after.op = "candidate" /\ last.after.outcome = "raised"
    /\ new_edges # <<>>
    /\ edges_file = edges
    /\ last.printed = 0 /\ last.status = 0

\* the candidate fails one of the validator's checks
FailsValidatorCheck(comp) ==
    \/ comp.t # "dict"
    \/ comp.from = MissingKey \/ comp.to = MissingKey
    \/ ~PositiveNumber(comp.factor)
    \/ comp.source_quote \in {Absent, <<>>, NonStringQuote}
    \/ NoPhrase(comp.source_quote)

\* C17: a candidate that fails a validator check (not an object, from or to
\* missing, factor missing, not a number or not positive, source_quote
\* missing, empty or not a string, no recognized phrase) is rejected without
\* an exception, changes no run state, and the loop goes on to the next
\* candidate of the article.
InvalidCandidateIsolated ==
    [][(/\ last'.op = "candidate"
        /\ edges_this_article < MAX_EDGES_PER_ARTICLE
        /\ FailsValidatorCheck(last'.comp))
       => (/\ last'.outcome = "invalid"
           /\ pc' = IF comps_left = 1 THEN return_pc ELSE "loop"
           /\ comps_left' = comps_left - 1
           /\ UNCHANGED <<new_units_map, new_edges, dedup_edge_keys, max_edge_num_ref,
                          edges_this_article, units, edges, existing_unit_ids,
                          terms_to_id, units_file, edges_file>>)]_vars

\* the label and the aliases a reference names a unit by: for a string the
\* string itself, for a proposal its label and aliases
NamesOf(unit_ref) ==
    IF unit_ref.t = "str" THEN {unit_ref.s}
    ELSE IF unit_ref.t = "dict"
    THEN (IF unit_ref.label = Absent THEN {} ELSE {unit_ref.label})
         \cup Range(unit_ref.aliases)
    ELSE {}

\* the ids of the units minted so far that the reference names: a string by
\* the unit's label or an alias, a proposal by any term of the unit
MintedMatches(unit_ref, minted) ==
    LET TermsOf(u) == (IF unit_ref.t = "dict" THEN {u.id} ELSE {})
                      \cup {u.label} \cup Range(u.aliases)
    IN {u.id : u \in {x \in Range(minted) :
                        \E p \in NamesOf(unit_ref) : \E t \in TermsOf(x) :
                            Lower(p) = Lower(t)}}

\* no term of a catalogue unit equals a name of the reference
NamesNoCatalogueUnit(unit_ref) ==
    \A u \in Range(units) : \A p \in NamesOf(unit_ref) :
        \A t \in {u.id, u.label} \cup Range(u.aliases) : Lower(p) # Lower(t)

\* C18: after a unit U is minted, a later reference of the run that is a
\* string equal, ignoring case, to U's label or one of U's aliases, or a
\* proposal whose label or an alias equals, ignoring case, one of U's terms,
\* resolves to U's id and mints no unit, whatever id the proposal suggests.
MintedUnitsIndexed ==
    (/\ last.op = "resolve"
     /\ NamesNoCatalogueUnit(last.ref)
     /\ MintedMatches(last.ref, last.before) # {})
        => /\ last.id \in MintedMatches(last.ref, last.before)
           /\ MapKeys(new_units_map) = MapKeys(last.before)

\* C19: a record stored in the minted-units map is never replaced, changed or
\* removed by a later resolve_unit call of the run; two different proposals
\* whose candidate id collides with one catalogue id therefore end up as two
\* units under two ids.
MintedUnitsImmutable ==
    [][/\ Len(new_units_map') >= Len(new_units_map)
       /\ \A i \in DOMAIN new_units_map : new_units_map'[i] = new_units_map[i]]_vars

TransientKinds == {"rate_limited", "rate_limited_no_delay"}

\* the call recorded in l sent a request to the primary (secondary) provider
\* and got a transient rate-limit error
GroqRateLimited(l) ==
    l.op = "call_llm" /\ Requested(l.llm.groq) /\ l.groq_resp \in TransientKinds
GeminiRateLimited(l) ==
    l.op = "call_llm" /\ Requested(l.llm.gemini) /\ l.gemini_resp \in TransientKinds

\* C20 as stated: a provider whose call ends in a transient rate-limit error
\* sleeps the reported or default backoff, keeps its exhausted flag false and
\* reports no answer, so that after the primary the secondary is tried for
\* the same article; and the provider is called again for the next article.
TransientRateLimitAlwaysFallsBack ==
    [][/\ GroqRateLimited(last')
            => /\ last'.llm.groq.slept /\ ~groq_quota_exhausted'
               /\ last'.llm.groq.answer = "none"
               /\ last'.llm.gemini # NotInvoked
               /\ last'.llm.n = last'.llm.gemini.n
       /\ GeminiRateLimited(last')
            => /\ last'.llm.gemini.slept /\ ~gemini_quota_exhausted'
               /\ last'.llm.n = 0
       /\ (GroqRateLimited(last) /\ last'.op = "call_llm")
            => Requested(last'.llm.groq)
       /\ (GeminiRateLimited(last) /\ last'.op = "call_llm"
           /\ last'.llm.groq.answer = "none")
            => Requested(last'.llm.gemini)]_vars

\* C20, amended: the primary provider, on a transient rate-limit error, sleeps
\* the reported or default backoff, keeps its flag false and reports no
\* answer; the secondary is then tried for the same article unless it is
\* already quota-exhausted, in which case the empty list is returned.  The
\* secondary, on a transient rate-limit error, sleeps the reported backoff
\* (it has no default and does not sleep when none is reported), keeps its
\* flag false and returns the empty list.  Either provider is called again
\* for the next article, the secondary when the primary gives no answer.
TransientRateLimitKeepsProvider ==
    [][/\ GroqRateLimited(last')
            => /\ last'.llm.groq.slept /\ ~groq_quota_exhausted'
               /\ last'.llm.groq.answer = "none"
               /\ ~gemini_quota_exhausted
                    => (last'.llm.gemini # NotInvoked
                        /\ last'.llm.n = last'.llm.gemini.n)
               /\ gemini_quota_exhausted
                    => (last'.llm.gemini = NotInvoked /\ last'.llm.n = 0)
       /\ GeminiRateLimited(last')
            => /\ last'.llm.gemini.slept = (last'.gemini_resp = "rate_limited")
               /\ ~gemini_quota_exhausted'
               /\ last'.llm.n = 0
       /\ (GroqRateLimited(last) /\ last'.op = "call_llm")
            => Requested(last'.llm.groq)
       /\ (GeminiRateLimited(last) /\ last'.op = "call_llm"
           /\ last'.llm.groq.answer = "none")
            => Requested(last'.llm.gemini)]_vars

\* the primary provider was rate-limited without a reported delay, slept, and
\* the secondary provider returned candidates for the article
TransientRateLimitKeepsProviderWitness ==
    /\ last.op = "call_llm" /\ GroqRateLimited(last)
    /\ last.groq_resp = "rate_limited_no_delay"
    /\ last.llm.groq.slept /\ ~groq_quota_exhausted
    /\ Requested(last.llm.gemini) /\ last.llm.n > 0

ArrayShapes == {"array", "wrapped"}
NoListShapes == {"bad_shape", "bad_json"}

\* the part of C21 that holds of both providers: a JSON array is returned as
\* the candidate list, and output of another shape or that is not JSON gives
\* no candidate; the primary provider unwraps an object
ShapesCommon(l) ==
    /\ (Requested(l.llm.groq) /\ l.groq_resp \in ArrayShapes)
         => (l.llm.groq.answer = "list" /\ l.llm.groq.n = l.groq_len)
    /\ (Requested(l.llm.groq) /\ l.groq_resp \in NoListShapes)
         => (l.llm.groq.answer = "none" /\ l.llm.groq.n = 0)
    /\ (Requested(l.llm.gemini) /\ l.gemini_resp = "array")
         => l.llm.gemini.n = l.gemini_len
    /\ (Requested(l.llm.gemini) /\ l.gemini_resp \in NoListShapes)
         => l.llm.gemini.n = 0

\* C21 as stated: each of the two providers returns a JSON array as the
\* candidate list, unwraps an object holding the array under a conventional
\* key, and gives no candidate for any other shape or unparsable output.
BothProvidersUnwrap ==
    last.op = "call_llm"
        => /\ ShapesCommon(last)
           /\ (Requested(last.llm.gemini) /\ last.gemini_resp = "wrapped")
                => last.llm.gemini.n = last.gemini_len

\* C21, amended: both providers return a JSON array as the candidate list and
\* give no candidate for output that is not JSON or has another shape; only
\* the primary provider unwraps an object holding the array under a
\* conventional key: the secondary provider gives no candidate for any output
\* that is not a JSON array, a wrapping object included.
OnlyPrimaryUnwraps ==
    last.op = "call_llm"
        => /\ ShapesCommon(last)
           /\ (Requested(last.llm.gemini) /\ last.gemini_resp = "wrapped")
                => (last.llm.gemini.n = 0 /\ last.llm.n = 0)

\* the primary provider returned the candidates of a wrapping object in one
\* call, and the secondary provider dropped those of a wrapping object
OnlyPrimaryUnwrapsWitness ==
    /\ last.op = "call_llm"
    /\ Requested(last.llm.gemini) /\ last.gemini_resp = "wrapped"
    /\ last.gemini_len > 0 /\ last.llm.n = 0
    /\ last.groq_resp = "bad_json" /\ Requested(last.llm.groq)

\* no provider can answer for the rest of the run
NoProviderLeft ==
    /\ groq_quota_exhausted \/ ~env.groq_key
    /\ gemini_quota_exhausted \/ ~env.gemini_key

InFeedLoops == pc \in {"feeds", "entries"}

\* a provider without credentials is sent no request by the call recorded
NoRequestWithoutKey(l) ==
    (l.op = "article" /\ l.text)
        => /\ ~env.groq_key => ~Requested(l.llm.groq)
           /\ ~env.gemini_key => ~Requested(l.llm.gemini)

\* C22 as stated: a provider without credentials is never sent a request; and
\* in feed mode, once every provider is quota-exhausted or without
\* credentials, process_article is called for no further article.
StopsWhenNoProviderLeft ==
    [][/\ NoRequestWithoutKey(last')
       /\ (InFeedLoops /\ NoProviderLeft) => processed' = processed]_vars

\* C22, amended: a provider without credentials is never sent a request and
\* raises no error; in feed mode the run stops processing articles once both
\* providers are quota-exhausted, and only then: while a provider without
\* credentials keeps its exhausted flag unset, the loops over the feeds and
\* the entries go on, and an article processed when no provider can answer
\* yields no candidate.
StopsOnlyWhenBothExhausted ==
    [][/\ NoRequestWithoutKey(last')
       /\ pc' # "failed"
       /\ (InFeedLoops /\ groq_quota_exhausted /\ gemini_quota_exhausted)
            => processed' = processed
       /\ (pc = "feeds" /\ feeds_left > 0
           /\ ~(groq_quota_exhausted /\ gemini_quota_exhausted))
            => last'.op \in {"feed", "article"}
       /\ (pc = "entries" /\ entries_left > 0
           /\ ~(groq_quota_exhausted /\ gemini_quota_exhausted))
            => last'.op \in {"entry_skipped", "article"}
       /\ (InFeedLoops /\ NoProviderLeft /\ last'.op = "article")
            => last'.llm.n = 0]_vars

\* the primary provider has no key and the secondary is quota-exhausted, and
\* one more article was fetched and passed to call_llm, which sent no request
StopsOnlyWhenBothExhaustedWitness ==
    /\ ~env.groq_key /\ env.gemini_key
    /\ last.op = "article" /\ last.text
    /\ last.llm.gemini_was_exhausted
    /\ ~Requested(last.llm.groq) /\ ~Requested(last.llm.gemini)
    /\ \E u \in DOMAIN processed : u # last.url /\ processed[u] = 1

\* the edges admitted so far from the article being processed
AdmittedFrom(url) == {i \in DOMAIN new_edges : new_edges[i].source_url = url}

\* C23: at most MAX_EDGES_PER_ARTICLE edges are admitted from one article; a
\* rejected candidate leaves the count of admitted edges as it was and an
\* admitted one adds one; below the cap the loop goes on, and once the cap is
\* reached the next candidate ends the loop without being validated or
\* resolved (no unit is minted, no edge appended).
PerArticleCap ==
    /\ [](\A u \in Urls : Cardinality(AdmittedFrom(u)) <= MAX_EDGES_PER_ARTICLE)
    /\ [][(pc = "loop" /\ last'.op = "candidate") =>
            LET before == Cardinality(AdmittedFrom(article_url))
                after  == Cardinality({i \in DOMAIN new_edges' :
                                         new_edges'[i].source_url = article_url})
            IN /\ last'.outcome = "admitted" => after = before + 1
               /\ last'.outcome # "admitted" => new_edges' = new_edges
               /\ before < MAX_EDGES_PER_ARTICLE => last'.outcome # "cap"
               /\ before >= MAX_EDGES_PER_ARTICLE =>
                     /\ last'.outcome = "cap"
                     /\ new_units_map' = new_units_map
                     /\ dedup_edge_keys' = dedup_edge_keys
                     /\ pc' = return_pc]_vars

\* a fourth candidate arrives after three edges of the article were admitted
PerArticleCapWitness ==
    /\ last.op = "candidate" /\ last.outcome = "cap"
    /\ Cardinality(AdmittedFrom(last.url)) = MAX_EDGES_PER_ARTICLE
    /\ validate_comparison(last.comp)

MintedIds == MapKeys(new_units_map)

\* the candidate of the step passed the validator, resolved on both sides to
\* two different units and reached the both-new test
ReachedBothNewTest(l) ==
    l.op = "candidate" /\ l.outcome \in {"both_new", "duplicate", "admitted"}

\* C24: with filter_both_new enabled no edge admitted in the run has both its
\* from and its to among the units minted in the run, and a candidate is
\* rejected by the filter exactly when both its sides are minted units; with
\* the policy disabled no candidate is rejected by the filter, and one whose
\* sides are both minted is admitted unless its dedup key is already known.
BothNewFilter ==
    /\ [](args.filter_both_new =>
            \A i \in DOMAIN new_edges :
               ~(new_edges[i].from \in MintedIds /\ new_edges[i].to \in MintedIds))
    /\ [][ReachedBothNewTest(last') =>
            LET both == /\ last'.from_id \in MapKeys(new_units_map')
                        /\ last'.to_id \in MapKeys(new_units_map')
                key == <<last'.from_id, last'.to_id,
                         NumKey(Float(last'.comp.factor)), last'.url>>
            IN /\ args.filter_both_new => (last'.outcome = "both_new" <=> both)
               /\ ~args.filter_both_new =>
                     /\ last'.outcome # "both_new"
                     /\ last'.outcome = "admitted" <=> key \notin dedup_edge_keys]_vars

\* the filter rejects a candidate whose source side was minted by an earlier
\* article of the run and whose target side is minted by this one
BothNewFilterWitness ==
    /\ args.filter_both_new
    /\ last.op = "candidate" /\ last.outcome = "both_new"
    /\ \E i \in DOMAIN new_edges :
         /\ new_edges[i].from = last.from_id
         /\ new_edges[i].source_url # last.url

\* the time of the latest request to a provider
LastSent(times) == times[Len(times)]

Later(a, b) == IF a > b THEN a ELSE b

Spaced(times, interval) ==
    \A i \in 1..(Len(times) - 1) : times[i + 1] - times[i] >= interval

\* C25: two consecutive requests to one provider are at least 60/RPM seconds
\* apart; before a request the provider sleeps what is left of that interval
\* since its own latest request and nothing when the interval has passed,
\* whatever was sent to the other provider in between.
CallSpacing ==
    /\ [](/\ Spaced(sent.groq, min_interval(GROQ_RPM))
          /\ Spaced(sent.gemini, min_interval(GEMINI_RPM)))
    /\ [][last'.op = "timed_call" =>
            /\ (last'.groq_requested /\ sent.groq # <<>>) =>
                  /\ LastSent(sent'.groq)
                       = Later(last'.start, LastSent(sent.groq) + min_interval(GROQ_RPM))
                  /\ LastSent(sent'.groq) = last'.start + last'.groq_slept
            /\ (last'.gemini_requested /\ sent.gemini # <<>>) =>
                  /\ LastSent(sent'.gemini)
                       = Later(last'.gemini_start,
                               LastSent(sent.gemini) + min_interval(GEMINI_RPM))
                  /\ LastSent(sent'.gemini) = last'.gemini_start + last'.gemini_slept
            /\ ~last'.groq_requested => sent'.groq = sent.groq
            /\ ~last'.gemini_requested => sent'.gemini = sent.gemini]_vars

\* the primary provider slept before its second request, 2.4 seconds after
\* the first, while the secondary one, last called more than 12 seconds
\* before, was requested without a sleep
CallSpacingWitness ==
    /\ last.op = "timed_call"
    /\ min_interval(GROQ_RPM) = 24 /\ min_interval(GEMINI_RPM) = 120
    /\ Len(sent.groq) = 2 /\ Len(sent.gemini) = 2
    /\ last.groq_slept > 0 /\ sent.groq[2] - sent.groq[1] = 24
    /\ last.gemini_requested /\ last.gemini_slept = 0

\* the candidate of the step passed the validator and went on to resolve_unit
Resolving(l) ==
    l.op = "candidate" /\ l.outcome \notin {"cap", "invalid", "raised"}

\* C26: resolve_unit never raises.  For a reference that is neither a string
\* nor an object it returns no id and leaves the minted-units map alone, and
\* process_article drops the candidate and goes on; for every string and
\* every object it returns a unit id.
ResolveNeverRaises ==
    [][Resolving(last') =>
         /\ last'.outcome # "resolve_raised"
         /\ pc' # "failed"
         /\ (last'.comp.from.t = "other" /\ last'.comp.to.t = "str") =>
               /\ last'.outcome = "unresolved"
               /\ last'.from_id = NoneId
               /\ new_units_map' = new_units_map
               /\ new_edges' = new_edges
         /\ last'.comp.from.t \in {"str", "dict"} => last'.from_id # NoneId
         /\ last'.comp.to.t \in {"str", "dict"} => last'.to_id # NoneId]_vars

PersistedUnitIds == UnitIds(units_file)

\* every persisted edge joins two persisted units
Consistent(unit_list, edge_list) ==
    \A i \in DOMAIN edge_list :
        /\ edge_list[i].from \in UnitIds(unit_list)
        /\ edge_list[i].to \in UnitIds(unit_list)

HasEdge(id, admitted) ==
    \E i \in DOMAIN admitted : admitted[i].from = id \/ admitted[i].to = id

\* C28: every unit minted in the run and written to data/units.json is the
\* from or the to of an edge admitted in the same run, and a candidate
\* rejected after unit resolution (self-loop, both-new filter, duplicate
\* dedup key) leaves the minted-units map as it was before the candidate.
NoOrphanMintedUnits ==
    [][/\ (last'.op = "write" /\ last'.units_saved) =>
             \A id \in MapKeys(new_units_map) : HasEdge(id, new_edges)
       /\ (last'.op = "candidate"
           /\ last'.outcome \in {"self_loop", "both_new", "duplicate"}) =>
             new_units_map' = new_units_map]_vars

====
